---- MODULE Spec2Model ----
(***************************************************************************)
(* State-machine model of the biglake-iceberg pipeline:                    *)
(*   - the cleaning engine  (datagrunt_agent/tools/cleaning.py)            *)
(*   - the ingestion loader (datagrunt_agent/tools/ingestion.py)           *)
(*   - the lakehouse loader (services/loader/bigquery_manager.py)          *)
(* Each part has its own specification (SpecClean, SpecLoad, SpecLake,     *)
(* SpecLakeRace) over one set of variables; the variables of the other     *)
(* parts stay at their initial values.                                     *)
(***************************************************************************)
EXTENDS Integers, Sequences, FiniteSets, TLC

VARIABLES
  tbl_types,      \* cleaning: column name -> column type of the table being cleaned
  tbl_rows,       \* cleaning: sequence of rows, each a function column -> value
  findings,       \* cleaning: tool_context.state["quality_findings"]
  cpc,            \* cleaning: position of clean_table in its protocol
  varchar_cols,   \* cleaning: the VARCHAR column snapshot taken at the start
  operations,     \* cleaning: operation tags appended so far
  before_types,   \* cleaning: column types when clean_table started
  before_rows,    \* cleaning: row count when clean_table started
  result,         \* cleaning: the dict clean_table returns
  db_tables,      \* ingestion: table name -> row count of the session table
  registry,       \* ingestion: DuckDBSession table registry (name -> row_count)
  loaded_tables,  \* ingestion: tool_context.state["loaded_tables"]
  current_table,  \* ingestion: tool_context.state["current_table"]
  tmp_files,      \* ingestion: repaired JSON copies left on disk
  load_calls,     \* ingestion: number of load_file calls made in the session
  load_call,      \* ingestion: the file the last load_file call was given
  load_result,    \* ingestion: the dict the last load_file call returned
  tgt_exists,     \* lakehouse: whether the target Iceberg table exists
  tgt_schema,     \* lakehouse: the target's schema, a sequence of fields
  tgt_rows,       \* lakehouse: the target's rows, each tagged with its load
  temps,          \* lakehouse: temporary external tables in the namespace
  lake_calls,     \* lakehouse: number of loader invocations started
  inv,            \* lakehouse: per invocation, its position and local values
  ag,             \* agent: per handle_gcs_event invocation, its position and locals
  work_dir,       \* agent: WORK_DIR, local path -> the object whose data the file holds
  session_tables, \* agent: the module-level session, table name -> object loaded
  staged,         \* agent: staging bucket, uploaded Parquet path -> object it holds
  published,      \* agent: the events published to the two topics
  fcall,          \* functions: the last call of a pure function, input and output
  file_doc,       \* logger: the file_registry document of one file_hash
  lg,             \* logger: per handle_pipeline_event invocation, its position and locals
  handled,        \* logger: the event types whose handling has committed
  lg_calls,       \* logger: number of handle_pipeline_event invocations started
  rerun           \* cleaning: the clean_table calls made on the table so far

cleanVars == <<tbl_types, tbl_rows, findings, cpc, varchar_cols, operations,
               before_types, before_rows, result>>

loadVars == <<db_tables, registry, loaded_tables, current_table, tmp_files,
              load_calls, load_call, load_result>>

lakeVars == <<tgt_exists, tgt_schema, tgt_rows, temps, lake_calls, inv>>

agentVars == <<ag, work_dir, session_tables, staged, published>>

funVars == <<fcall>>

logVars == <<file_doc, lg, handled, lg_calls>>

rerunVars == <<rerun>>

vars == <<cleanVars, loadVars, lakeVars, agentVars, funVars, logVars, rerunVars>>

\* the variables clean_table does not touch
notCleanVars == <<loadVars, lakeVars, agentVars, funVars, logVars, rerunVars>>

\* the variables load_file does not touch
notLoadVars == <<cleanVars, lakeVars, agentVars, funVars, logVars, rerunVars>>

\* the variables the lakehouse loader does not touch
notLakeVars == <<cleanVars, loadVars, agentVars, funVars, logVars, rerunVars>>

\* the variables handle_gcs_event does not touch
notAgentVars == <<cleanVars, loadVars, lakeVars, funVars, logVars, rerunVars>>

\* the variables handle_pipeline_event does not touch
notLogVars == <<cleanVars, loadVars, lakeVars, agentVars, funVars, rerunVars>>

\* the variables the pure functions do not touch
notFunVars == <<cleanVars, loadVars, lakeVars, agentVars, logVars, rerunVars>>

\* ------------------------------------------------------------------------
\* Bounds
\* ------------------------------------------------------------------------

\* at most this many findings are stored for one cleaning run
MaxFindings == 2

\* a source CSV file has at most this many data rows
MaxDataRows == 2

\* a line-delimited JSON file has at most this many lines
MaxLines == 3

\* a session makes at most this many load_file calls
MaxLoadCalls == 2

\* at most this many loader invocations are handled one after the other
MaxLakeCalls == 3

\* a SQL text has at most this many lexical pieces
MaxSqlPieces == 4

\* the longest list of column names given to normalize_column_names
MaxColumns == 3

\* the largest number of findings of one severity in a quality report
MaxSeverityCount == 2

\* the largest number of pipeline events delivered to the logger for one file
MaxLogEvents == 3

\* ------------------------------------------------------------------------
\* The ingestion session before any load_file call
\* ------------------------------------------------------------------------

\* session.generate_table_name(file_path) of the files that are loaded
TableNames == {"table_orders"}

\* row count standing for "the session has no such table" / "no entry"
NoTable == -1

LoadResult(status, err, tname, total, source, empty, recov, strategy, unrec, repaired) ==
  [status |-> status, error |-> err, table_name |-> tname,
   total_rows |-> total, source_rows |-> source,
   empty_rows_removed |-> empty, recovery_used |-> recov,
   parse_strategy |-> strategy, unrecoverable_errors |-> unrec,
   json_repair |-> repaired]

NoLoadResult == LoadResult("none", "", "", 0, NoTable, 0, FALSE, "", {}, FALSE)

NoLoadCall == [fmt |-> "none", table |-> "", data_rows |-> 0, lines |-> <<>>,
               tmp_written |-> 0]

LoadIdle ==
  /\ db_tables = [t \in TableNames |-> NoTable]
  /\ registry = [t \in TableNames |-> NoTable]
  /\ loaded_tables = [t \in TableNames |-> NoTable]
  /\ current_table = ""
  /\ tmp_files = 0
  /\ load_calls = 0
  /\ load_call = NoLoadCall
  /\ load_result = NoLoadResult

\* ------------------------------------------------------------------------
\* The lakehouse before any loader invocation
\* ------------------------------------------------------------------------

\* the loader invocations (request handlers) that may overlap
Procs == {1, 2}

NoRequest == [parquet |-> "none", write_mode |-> "", upsert_keys |-> <<>>]

\* the local values of one handle_pubsub invocation; prior_* record the
\* target as it was when the invocation started, redelivery_of the load id of
\* the earlier handling of the same request when this one is a redelivery
IdleInvocation ==
  [pc |-> "idle", request |-> NoRequest, load_id |-> 0, path |-> "",
   new_columns |-> <<>>, select_cols |-> <<>>, error |-> "", event |-> "",
   prior_exists |-> FALSE, prior_schema |-> <<>>, prior_rows |-> {},
   redelivery_of |-> 0]

LakeIdle ==
  /\ tgt_exists = FALSE
  /\ tgt_schema = <<>>
  /\ tgt_rows = {}
  /\ temps = {}
  /\ lake_calls = 0
  /\ inv = [p \in Procs |-> IdleInvocation]

\* ------------------------------------------------------------------------
\* The agent worker before any handle_gcs_event invocation
\* ------------------------------------------------------------------------

\* the handle_gcs_event invocations one worker handles
AgentInvs == {1, 2}

\* "no object": the content of a path or table that does not exist
NoObject == ""

\* GCS object names of the inbox bucket
ObjectNames == {"orders/data.csv", "returns/data.csv", "orders/b.csv", "orders/", ".keep"}

\* os.path.basename(object_name)
file_name_of(object_name) ==
  CASE object_name \in {"orders/data.csv", "returns/data.csv"} -> "data.csv"
    [] object_name = "orders/b.csv" -> "b.csv"
    [] object_name = ".keep" -> ".keep"
    [] OTHER -> ""

\* _derive_table_name: the first path component, else the file name's stem
derive_table_name(object_name) ==
  CASE object_name \in {"orders/data.csv", "orders/b.csv"} -> "orders"
    [] object_name = "returns/data.csv" -> "returns"
    [] object_name = "orders/" -> "orders"
    [] OTHER -> ""

\* session.generate_table_name(local_path): "table_" + the file name's stem
generate_table_name(file_name) ==
  CASE file_name = "data.csv" -> "table_data"
    [] file_name = "b.csv" -> "table_b"
    [] OTHER -> "table_keep"

TargetTables == {"orders", "returns"}

\* the paths handle_gcs_event uses under WORK_DIR
local_path(file_name) == <<"WORK_DIR", file_name>>
parquet_local(target_table) == <<"WORK_DIR", target_table, "_cleaned.parquet">>
quality_report_local(target_table) == <<"WORK_DIR", target_table, "_quality.json">>
cleaning_report_local(target_table) == <<"WORK_DIR", target_table, "_cleaning.json">>

WorkPaths ==
  {local_path(f) : f \in {"data.csv", "b.csv"}}
    \cup {parquet_local(t) : t \in TargetTables}
    \cup {quality_report_local(t) : t \in TargetTables}
    \cup {cleaning_report_local(t) : t \in TargetTables}

\* the staged Parquet object of an inbox object: parquet/<table>/<stem>.parquet
StagedPaths == {<<"parquet", derive_table_name(o), file_name_of(o)>> :
                  o \in {"orders/data.csv", "returns/data.csv", "orders/b.csv"}}

SessionTableNames == {"table_data", "table_b"}

\* no row count: the variable is not bound yet, the key is not in the dict
NoRows == -1

IdleAgent ==
  [pc |-> "idle", object |-> NoObject, failed_stage |-> "", failed_exc |-> "",
   exc |-> "", failure_event |-> "", outcome |-> "", load_request_sent |-> FALSE,
   raw_rows |-> NoRows, after_rows |-> NoRows, cleaned_rows |-> NoRows,
   row_count |-> NoRows, row_count_cleaned |-> NoRows]

AgentIdle ==
  /\ ag = [i \in AgentInvs |-> IdleAgent]
  /\ work_dir = [p \in WorkPaths |-> NoObject]
  /\ session_tables = [t \in SessionTableNames |-> NoObject]
  /\ staged = [p \in StagedPaths |-> NoObject]
  /\ published = {}

NoCall == [fn |-> "none", input |-> <<>>, output |-> <<>>]

FunIdle == fcall = NoCall

\* the logger's handlers (invocations of handle_pipeline_event that may overlap)
LogProcs == {1, 2}

\* the file_registry document before any event: it does not exist
NoDoc == [exists |-> FALSE, status |-> "", version |-> 0]

\* the local values of one handle_pipeline_event invocation: doc_data's
\* status key ("" when the key is not set) and the snapshot it read
IdleLogger ==
  [pc |-> "idle", message_type |-> "", doc_status |-> "", snapshot |-> NoDoc,
   attempts |-> 0]

LogIdle ==
  /\ file_doc = NoDoc
  /\ lg = [h \in LogProcs |-> IdleLogger]
  /\ handled = {}
  /\ lg_calls = 0

\* ------------------------------------------------------------------------
\* Cell values.  Every cell is a string; Null stands for SQL NULL.  The SQL
\* functions the cleaning code calls are tabulated on the values used.
\* ------------------------------------------------------------------------

Null == "<NULL>"

\* TRIM(v)
Trim(v) ==
  CASE v = " A" -> "A"
    [] v = " a" -> "a"
    [] v = " "  -> ""
    [] OTHER    -> v

\* LOWER(v)
Lower(v) ==
  CASE v = "A"   -> "a"
    [] v = " A"  -> " a"
    [] v = "N/A" -> "n/a"
    [] OTHER     -> v

\* v LIKE '%<U+FFFD>%'
HasReplacementChar(v) == v = "x<FFFD>"

\* v LIKE '%<bad>%' for a key of _MOJIBAKE_MAP
HasMojibake(v) == v = "<C3><A9>"

\* REPLACE(v, bad, good) for the entries of _MOJIBAKE_MAP
FixMojibake(v) == IF v = "<C3><A9>" THEN "<E9>" ELSE v

\* TRY_CAST(v AS DOUBLE), the result written back as text
TryCastDouble(v) ==
  CASE v = "12" -> "12"
    [] v = "07" -> "7"
    [] v = "7"  -> "7"
    [] OTHER    -> Null

\* TRY_CAST(v AS DATE) formatted as YYYY-MM-DD
TryCastDate(v) ==
  CASE v = "2020-1-2"   -> "2020-01-02"
    [] v = "2020-01-02" -> "2020-01-02"
    [] OTHER            -> Null

\* TRY_CAST(v AS new_type)
TryCast(v, new_type) ==
  CASE new_type = "DOUBLE"  -> TryCastDouble(v)
    [] new_type = "DATE"    -> TryCastDate(v)
    [] new_type = "VARCHAR" -> v
    [] OTHER                -> Null

\* _NULL_LIKE_SENTINELS, lowercase
NULL_LIKE_SENTINELS ==
  {"null", "none", "n/a", "na", "-", "", "#n/a", "nan", "missing"}

\* _PROTECTED_COLUMNS
PROTECTED_COLUMNS == {"processed_at", "is_duplicate"}

\* ------------------------------------------------------------------------
\* Tables and findings a cleaning run can start from
\* ------------------------------------------------------------------------

\* a loaded table: two VARCHAR data columns and the processed_at stamp
LoadedTypes == [c \in {"a", "b", "processed_at"} |->
                  IF c = "processed_at" THEN "TIMESTAMP" ELSE "VARCHAR"]

\* no clean_table call has returned yet: nothing to compare a later call with
FirstCall ==
  [calls |-> 0, table_after_first |-> [types |-> LoadedTypes, rows |-> <<>>],
   raised |-> FALSE]

RerunIdle == rerun = FirstCall

MkRow(av, bv) == [c \in {"a", "b", "processed_at"} |->
                    CASE c = "a" -> av [] c = "b" -> bv [] OTHER -> "ts"]

SampleTables ==
  { <<MkRow(" A", "07"), MkRow("a", "07")>>,
    <<MkRow("N/A", Null), MkRow("", Null)>>,
    <<MkRow("12", "07"), MkRow("12", "07")>>,
    <<MkRow("x<FFFD>", "07"), MkRow("<C3><A9>", "7")>>,
    <<MkRow("2020-1-2", Null), MkRow("2020-1-2", "07")>>,
    <<MkRow("A", "x"), MkRow("a", "x"), MkRow("A", "x")>>,
    <<MkRow("x", "12"), MkRow(" ", "n/a")>>,
    <<>> }

\* the columns a finding may name
FindingColumns == {"a", "b", "processed_at", "is_duplicate"}

Finding(cat, col, cols, cast, lz, date_pct, null_pct, dups) ==
  [category |-> cat, column |-> col, columns |-> cols, suggested_cast |-> cast,
   leading_zero_count |-> lz, date_castable_rate |-> date_pct,
   null_rate |-> null_pct, approximate_count |-> dups]

\* rates are percentages: null_rate 95 stands for 0.95
FindingUniverse ==
       { Finding("whitespace", c, {}, "None", 0, 0, 0, 0) : c \in FindingColumns }
  \cup { Finding("null_like_strings", c, {}, "None", 0, 0, 0, 0) : c \in FindingColumns }
  \cup { Finding("type_analysis", c, {}, "None", 1, 0, 0, 0) : c \in FindingColumns }
  \cup { Finding("type_analysis", c, {}, "BOOLEAN", 1, 0, 0, 0) : c \in FindingColumns }
  \cup { Finding("type_analysis", c, {}, "None", 1, 95, 0, 0) : c \in {"a", "b"} }
  \cup { Finding("type_analysis", c, {}, "DOUBLE", 0, 0, 0, 0) : c \in FindingColumns }
  \cup { Finding("type_analysis", c, {}, "DATE", 0, 95, 0, 0) : c \in FindingColumns }
  \cup { Finding("null_analysis", c, {}, "None", 0, 0, 95, 0) : c \in FindingColumns }
  \cup { Finding("null_analysis", "a", {}, "None", 0, 0, 60, 0) }
  \cup { Finding("constant_columns", "", cs, "None", 0, 0, 0, 0) :
           cs \in {{"a"}, {"b"}, {"processed_at"}, {"is_duplicate"}, {"a", "b"}} }
  \cup { Finding("duplicates", "", {}, "None", 0, 0, 0, n) : n \in {0, 1} }

\* the scanner emits one type_analysis finding per column
OneTypeFindingPerColumn(F) ==
  \A f, g \in F :
    (f.category = "type_analysis" /\ g.category = "type_analysis"
       /\ f.column = g.column) => f = g

\* the subsets of S with at most k elements
RECURSIVE SubsetsUpTo(_, _)
SubsetsUpTo(S, k) ==
  IF k = 0 THEN {{}}
  ELSE LET P == SubsetsUpTo(S, k - 1) IN P \cup {p \cup {x} : p \in P, x \in S}

FindingSets ==
  { F \in SubsetsUpTo(FindingUniverse, MaxFindings) : OneTypeFindingPerColumn(F) }

\* ------------------------------------------------------------------------
\* Table helpers (DuckDBSession)
\* ------------------------------------------------------------------------

Table(types, rws) == [types |-> types, rows |-> rws]

\* session.get_column_names
get_column_names(T) == DOMAIN T.types

\* session.get_row_count
get_row_count(T) == Len(T.rows)

\* every value a cell of T holds
CellsOf(T) == {T.rows[i][c] : i \in DOMAIN T.rows, c \in DOMAIN T.types}

\* UPDATE t SET col = f[col], for every col in cols (f tabulated on the
\* cells of T)
UpdateColumns(T, cols, f) ==
  [T EXCEPT !.rows =
     [i \in DOMAIN T.rows |->
        [c \in DOMAIN T.rows[i] |->
           IF c \in cols THEN f[T.rows[i][c]] ELSE T.rows[i][c]]]]

\* values of one column (no values when the table lacks the column)
ColumnValues(T, col) ==
  IF col \in DOMAIN T.types THEN {T.rows[i][col] : i \in DOMAIN T.rows} ELSE {}

\* the columns of type VARCHAR
VarcharColumns(T) == {c \in DOMAIN T.types : T.types[c] = "VARCHAR"}

\* ALTER TABLE t DROP COLUMN col; raises when the column is missing or is
\* the only column left, and the callers swallow the exception
DropColumnRaises(T, col) ==
  col \notin DOMAIN T.types \/ Cardinality(DOMAIN T.types) = 1

\* the table after the DROP COLUMN statements that did not raise
DropColumns(T, cols) ==
  LET keep == DOMAIN T.types \ cols IN
  [types |-> [c \in keep |-> T.types[c]],
   rows  |-> [i \in DOMAIN T.rows |-> [c \in keep |-> T.rows[i][c]]]]

\* ------------------------------------------------------------------------
\* SQL templates of datagrunt_agent/sql/cleaning (one statement each)
\* ------------------------------------------------------------------------

\* cleaning/replace_unknown_chars.sql: strip U+FFFD from the value
sql_replace_unknown_chars(v) == IF v = "x<FFFD>" THEN "x" ELSE v

\* cleaning/trim_whitespace.sql: v := TRIM(v) where v != TRIM(v)
sql_trim_whitespace(v) == IF v /= Null /\ v /= Trim(v) THEN Trim(v) ELSE v

\* cleaning/normalize_empty_strings.sql: NULL where TRIM(v) = ''
sql_normalize_empty_strings(v) == IF Trim(v) = "" THEN Null ELSE v

\* cleaning/normalize_null_like.sql: NULL where LOWER(TRIM(v)) is a sentinel
sql_normalize_null_like(v) ==
  IF Lower(Trim(v)) \in NULL_LIKE_SENTINELS THEN Null ELSE v

\* cleaning/standardize_date.sql: cast to DATE, format back to YYYY-MM-DD text
sql_standardize_date(v) == TryCastDate(v)

\* cleaning/normalize_case.sql: v := LOWER(v)
sql_normalize_case(v) == Lower(v)

\* cleaning/cast_column_type.sql: ALTER COLUMN col TYPE new_type USING TRY_CAST
sql_cast_column_type(T, col, new_type) ==
  [types |-> [T.types EXCEPT ![col] = new_type],
   rows  |-> [i \in DOMAIN T.rows |->
                [T.rows[i] EXCEPT ![col] = TryCast(@, new_type)]]]

\* cleaning/flag_duplicates.sql: ADD COLUMN is_duplicate BOOLEAN, then UPDATE
\* marking every row but the first of each group of equal column_list values
sql_flag_duplicates(T, column_list) ==
  LET cols2 == DOMAIN T.types \cup {"is_duplicate"}
      Same(i, j) == \A c \in column_list : T.rows[i][c] = T.rows[j][c]
      Flag(i) == IF \E j \in 1..(i - 1) : Same(i, j) THEN "true" ELSE "false"
  IN [types |-> [c \in cols2 |->
                   IF c = "is_duplicate" THEN "BOOLEAN" ELSE T.types[c]],
      rows  |-> [i \in DOMAIN T.rows |->
                   [c \in cols2 |->
                      IF c = "is_duplicate" THEN Flag(i) ELSE T.rows[i][c]]]]

\* ------------------------------------------------------------------------
\* The cleaning steps.  Each returns the table after the step and whether
\* the step returned an operation record (op) or None.
\* ------------------------------------------------------------------------

StepResult(T, emitted) == [tbl |-> T, op |-> emitted]

\* _clean_unknown_chars
CleanUnknownValue(v) == FixMojibake(sql_replace_unknown_chars(v))

clean_unknown_chars(T, vcols) ==
  LET columns_cleaned ==
        {c \in vcols : \E v \in ColumnValues(T, c) :
                          HasReplacementChar(v) \/ HasMojibake(v)}
  IN StepResult(UpdateColumns(T, columns_cleaned,
                                 [v \in CellsOf(T) |-> CleanUnknownValue(v)]),
                columns_cleaned /= {})

\* _clean_whitespace
clean_whitespace(T, vcols, F) ==
  LET flagged == {f.column : f \in {g \in F : g.category = "whitespace"}}
      targets == vcols \cup flagged
      columns_cleaned ==
        {c \in targets \ PROTECTED_COLUMNS :
           \E v \in ColumnValues(T, c) : v /= Null /\ v /= Trim(v)}
  IN StepResult(UpdateColumns(T, columns_cleaned,
                                 [v \in CellsOf(T) |-> sql_trim_whitespace(v)]),
                columns_cleaned /= {})

\* _clean_empty_strings
clean_empty_strings(T, vcols) ==
  LET columns_cleaned ==
        {c \in vcols \ PROTECTED_COLUMNS :
           \E v \in ColumnValues(T, c) : Trim(v) = ""}
  IN StepResult(UpdateColumns(T, columns_cleaned,
                                 [v \in CellsOf(T) |-> sql_normalize_empty_strings(v)]),
                columns_cleaned /= {})

\* _clean_null_like_strings
clean_null_like_strings(T, F) ==
  LET flagged == {f \in F : f.category = "null_like_strings"}
      columns_cleaned ==
        {c \in {f.column : f \in flagged} \ PROTECTED_COLUMNS :
           \E v \in ColumnValues(T, c) : Lower(Trim(v)) \in NULL_LIKE_SENTINELS}
  IN StepResult(UpdateColumns(T, columns_cleaned,
                                 [v \in CellsOf(T) |-> sql_normalize_null_like(v)]),
                columns_cleaned /= {})

\* _standardize_dates: the statement raises (and is skipped) only when the
\* table lacks the column
standardize_dates(T, F) ==
  LET date_cols == {f.column : f \in {g \in F : g.category = "type_analysis"
                                                /\ g.date_castable_rate > 90}}
      columns_standardized ==
        {c \in date_cols \ PROTECTED_COLUMNS : c \in DOMAIN T.types}
  IN StepResult(UpdateColumns(T, columns_standardized,
                                 [v \in CellsOf(T) |-> sql_standardize_date(v)]),
                columns_standardized /= {})

\* _clean_type_coercion
RECURSIVE CastAll(_, _)
CastAll(T, todo) ==
  IF todo = {} THEN T
  ELSE LET f == CHOOSE g \in todo : TRUE
       IN CastAll(sql_cast_column_type(T, f.column, f.suggested_cast), todo \ {f})

\* mutant: the leading-zero skip of _clean_type_coercion is missing
clean_type_coercion_no_identifier_skip(T, F) ==
  LET candidates ==
        {f \in F : /\ f.category = "type_analysis"
                   /\ f.column \notin PROTECTED_COLUMNS
                   /\ f.suggested_cast /= "None"
                   /\ f.suggested_cast /= "DATE"}
      columns_coerced == {f \in candidates : f.column \in DOMAIN T.types}
  IN StepResult(CastAll(T, columns_coerced), candidates /= {})

clean_type_coercion(T, F) ==
  LET type_findings ==
        {f \in F : f.category = "type_analysis"
                   /\ (f.suggested_cast /= "None" \/ f.leading_zero_count > 0)}
      candidates ==
        {f \in type_findings :
           /\ f.column \notin PROTECTED_COLUMNS
           /\ ~(f.leading_zero_count > 0)
           /\ f.suggested_cast /= "None"
           /\ f.suggested_cast /= "DATE"}
      columns_coerced   == {f \in candidates : f.column \in DOMAIN T.types}
      coercion_failures == {f \in candidates : f.column \notin DOMAIN T.types}
  IN StepResult(CastAll(T, columns_coerced),
                columns_coerced /= {} \/ coercion_failures /= {})

\* the identifier_columns list _clean_type_coercion returns
identifier_columns(F) ==
  {f.column : f \in {g \in F : /\ g.category = "type_analysis"
                               /\ g.column \notin PROTECTED_COLUMNS
                               /\ g.leading_zero_count > 0}}

\* cardinality limit of _normalize_case
CASE_CARDINALITY_LIMIT == 50

\* _normalize_case
normalize_case(T, vcols) ==
  LET columns_normalized ==
        {c \in vcols \ PROTECTED_COLUMNS :
           /\ Cardinality(ColumnValues(T, c) \ {Null}) < CASE_CARDINALITY_LIMIT
           /\ \E v \in ColumnValues(T, c) : v /= Null /\ v /= Lower(v)}
  IN StepResult(UpdateColumns(T, columns_normalized,
                                 [v \in CellsOf(T) |-> sql_normalize_case(v)]),
                columns_normalized /= {})

\* mutant: duplicates are deleted instead of flagged
flag_duplicates_hard_delete(T, F) ==
  LET dup_findings == {f \in F : f.category = "duplicates"
                                 /\ f.approximate_count > 0}
      check_columns == get_column_names(T) \ PROTECTED_COLUMNS
      flagged == sql_flag_duplicates(T, check_columns)
  IN IF dup_findings = {} \/ check_columns = {}
     THEN StepResult(T, FALSE)
     ELSE StepResult([flagged EXCEPT !.rows =
                        SelectSeq(flagged.rows, LAMBDA r : r["is_duplicate"] = "false")],
                     TRUE)

\* _flag_duplicates
flag_duplicates(T, F) ==
  LET dup_findings == {f \in F : f.category = "duplicates"
                                 /\ f.approximate_count > 0}
      check_columns == get_column_names(T) \ PROTECTED_COLUMNS
  IN IF dup_findings = {} \/ check_columns = {}
     THEN StepResult(T, FALSE)
     ELSE StepResult(sql_flag_duplicates(T, check_columns), TRUE)

\* _clean_high_null_columns
clean_high_null_columns(T, F) ==
  LET high_null == {f \in F : f.category = "null_analysis" /\ f.null_rate > 90}
      columns_dropped ==
        {c \in {f.column : f \in high_null} \ PROTECTED_COLUMNS :
           ~DropColumnRaises(T, c)}
  IN StepResult(DropColumns(T, columns_dropped), columns_dropped /= {})

\* mutant: the protected-column check of _clean_constant_columns is missing
clean_constant_columns_unprotected(T, F) ==
  LET named == UNION {f.columns : f \in {g \in F : g.category = "constant_columns"}}
      columns_dropped == {c \in named : ~DropColumnRaises(T, c)}
  IN StepResult(DropColumns(T, columns_dropped), columns_dropped /= {})

\* _clean_constant_columns
clean_constant_columns(T, F) ==
  LET constant_findings == {f \in F : f.category = "constant_columns"}
      named == UNION {f.columns : f \in constant_findings}
      columns_dropped ==
        {c \in named \ PROTECTED_COLUMNS : ~DropColumnRaises(T, c)}
  IN StepResult(DropColumns(T, columns_dropped), columns_dropped /= {})

\* _clean_whitespace: the COUNT(*) statement names every flagged column
\* that is not protected; it raises for a column the table lacks, and
\* neither the step nor clean_table catches the exception
WhitespaceCountRaises(T, F) ==
  \E f \in F : /\ f.category = "whitespace"
               /\ f.column \notin PROTECTED_COLUMNS
               /\ f.column \notin DOMAIN T.types

\* _clean_null_like_strings: the same for its COUNT(*) statement
NullLikeCountRaises(T, F) ==
  \E f \in F : /\ f.category = "null_like_strings"
               /\ f.column \notin PROTECTED_COLUMNS
               /\ f.column \notin DOMAIN T.types

\* ------------------------------------------------------------------------
\* clean_table: one action per step of the protocol, in the order of
\* ProtocolSteps.  cpc = 0: not started; cpc = k: step k is next;
\* cpc = Len(ProtocolSteps) + 1: the steps are done; CleanReturned: returned.
\* ------------------------------------------------------------------------

\* mutant: soft dedup runs after the column removals
ProtocolSteps_dedup_last ==
  << "unknown_char_replacement", "whitespace_trimming",
     "empty_string_normalization", "null_like_normalization",
     "date_standardization", "type_coercion", "mixed_case_normalization",
     "high_null_column_removal", "constant_column_removal", "soft_dedup" >>

\* the order in which clean_table calls the steps that emit operations
ProtocolSteps ==
  << "unknown_char_replacement", "whitespace_trimming",
     "empty_string_normalization", "null_like_normalization",
     "date_standardization", "type_coercion", "mixed_case_normalization",
     "soft_dedup", "high_null_column_removal", "constant_column_removal" >>

CleanStepsDone == Len(ProtocolSteps) + 1
CleanReturned == Len(ProtocolSteps) + 2

CleanRaised == Len(ProtocolSteps) + 3

CurTable == Table(tbl_types, tbl_rows)

NoResult == [status |-> "none", before_rows |-> 0, after_rows |-> 0,
             operations |-> <<>>, identifier_columns |-> {}]

InitClean ==
  /\ tbl_types = LoadedTypes
  /\ tbl_rows \in SampleTables
  /\ findings \in FindingSets
  /\ cpc = 0
  /\ varchar_cols = {}
  /\ operations = <<>>
  /\ before_types = LoadedTypes
  /\ before_rows = 0
  /\ result = NoResult
  /\ LoadIdle
  /\ LakeIdle
  /\ AgentIdle
  /\ FunIdle
  /\ LogIdle /\ RerunIdle

\* clean_table, lines 75-94: snapshot of the before-state and column metadata
CleanBegin ==
  /\ cpc = 0
  /\ before_rows' = get_row_count(CurTable)
  /\ before_types' = tbl_types
  /\ varchar_cols' = VarcharColumns(CurTable) \ {"processed_at"}
  /\ operations' = <<>>
  /\ cpc' = 1
  /\ UNCHANGED <<tbl_types, tbl_rows, findings, result, notCleanVars>>

\* "op = step(...); if op: operations.append(op)"
ApplyStep(tag, r) ==
  /\ cpc \in 1..Len(ProtocolSteps)
  /\ ProtocolSteps[cpc] = tag
  /\ tbl_types' = r.tbl.types
  /\ tbl_rows' = r.tbl.rows
  /\ operations' = IF r.op THEN Append(operations, tag) ELSE operations
  /\ cpc' = cpc + 1
  /\ UNCHANGED <<findings, varchar_cols, before_types, before_rows, result,
                 notCleanVars>>

StepUnknownChars ==
  ApplyStep("unknown_char_replacement", clean_unknown_chars(CurTable, varchar_cols))

StepWhitespace ==
  /\ ~WhitespaceCountRaises(CurTable, findings)
  /\ ApplyStep("whitespace_trimming", clean_whitespace(CurTable, varchar_cols, findings))

StepEmptyStrings ==
  ApplyStep("empty_string_normalization", clean_empty_strings(CurTable, varchar_cols))

StepNullLike ==
  /\ ~NullLikeCountRaises(CurTable, findings)
  /\ ApplyStep("null_like_normalization", clean_null_like_strings(CurTable, findings))

StepDates ==
  ApplyStep("date_standardization", standardize_dates(CurTable, findings))

StepTypeCoercion ==
  ApplyStep("type_coercion", clean_type_coercion(CurTable, findings))

\* the VARCHAR columns are read again after the coercion
StepCase ==
  ApplyStep("mixed_case_normalization",
            normalize_case(CurTable, VarcharColumns(CurTable) \ PROTECTED_COLUMNS))

StepDedup ==
  ApplyStep("soft_dedup", flag_duplicates(CurTable, findings))

StepHighNull ==
  ApplyStep("high_null_column_removal", clean_high_null_columns(CurTable, findings))

StepConstant ==
  ApplyStep("constant_column_removal", clean_constant_columns(CurTable, findings))

\* clean_table, lines 153-200: PII detection and the precision check change
\* nothing in the table; the after-state is read and the result returned
CleanFinish ==
  /\ cpc = CleanStepsDone
  /\ result' = [status |-> "success",
                before_rows |-> before_rows,
                after_rows |-> get_row_count(CurTable),
                operations |-> operations,
                identifier_columns |-> identifier_columns(findings)]
  /\ cpc' = CleanReturned
  /\ UNCHANGED <<tbl_types, tbl_rows, findings, varchar_cols, operations,
                 before_types, before_rows, notCleanVars>>

NextClean ==
  \/ CleanBegin
  \/ StepUnknownChars
  \/ StepWhitespace
  \/ StepEmptyStrings
  \/ StepNullLike
  \/ StepDates
  \/ StepTypeCoercion
  \/ StepCase
  \/ StepDedup
  \/ StepHighNull
  \/ StepConstant
  \/ CleanFinish

SpecClean == InitClean /\ [][NextClean]_vars

\* ------------------------------------------------------------------------
\* A second clean_table call on the table the first call left, with the
\* findings still in tool_context.state["quality_findings"]
\* ------------------------------------------------------------------------

\* clean_table is called again after it returned
CleanAgain ==
  /\ cpc = CleanReturned
  /\ rerun.calls = 0
  /\ rerun' = [calls |-> 1, table_after_first |-> CurTable, raised |-> FALSE]
  /\ cpc' = 0
  /\ UNCHANGED <<tbl_types, tbl_rows, findings, varchar_cols, operations,
                 before_types, before_rows, result, loadVars, lakeVars,
                 agentVars, funVars, logVars>>

\* _clean_whitespace raises at a flagged column the table lacks; the
\* targets are visited in the order of a Python set, so any of the other
\* targets may have been trimmed before
StepWhitespaceRaises ==
  /\ cpc \in 1..Len(ProtocolSteps)
  /\ ProtocolSteps[cpc] = "whitespace_trimming"
  /\ WhitespaceCountRaises(CurTable, findings)
  /\ \E trimmed \in SUBSET ((varchar_cols \cap DOMAIN tbl_types) \ PROTECTED_COLUMNS) :
       tbl_rows' = UpdateColumns(CurTable, trimmed,
                                 [v \in CellsOf(CurTable) |-> sql_trim_whitespace(v)]).rows
  /\ cpc' = CleanRaised
  /\ rerun' = [rerun EXCEPT !.raised = TRUE]
  /\ UNCHANGED <<tbl_types, findings, varchar_cols, operations, before_types,
                 before_rows, result, loadVars, lakeVars, agentVars, funVars,
                 logVars>>

\* _clean_null_like_strings raises at a flagged column the table lacks; the
\* findings before it in the list have been handled
StepNullLikeRaises ==
  /\ cpc \in 1..Len(ProtocolSteps)
  /\ ProtocolSteps[cpc] = "null_like_normalization"
  /\ NullLikeCountRaises(CurTable, findings)
  /\ \E handled_before \in SUBSET {f \in findings : f.column \in DOMAIN tbl_types} :
       tbl_rows' = clean_null_like_strings(CurTable, handled_before).tbl.rows
  /\ cpc' = CleanRaised
  /\ rerun' = [rerun EXCEPT !.raised = TRUE]
  /\ UNCHANGED <<tbl_types, findings, varchar_cols, operations, before_types,
                 before_rows, result, loadVars, lakeVars, agentVars, funVars,
                 logVars>>

NextReclean ==
  \/ NextClean
  \/ CleanAgain
  \/ StepWhitespaceRaises
  \/ StepNullLikeRaises

SpecReclean == InitClean /\ [][NextReclean]_vars

\* ------------------------------------------------------------------------
\* Properties of the cleaning engine (checked under SpecClean)
\* ------------------------------------------------------------------------

\* C1: in every cleaning run the row count never falls below before_rows, at
\* any step, and the returned after_rows is at least before_rows.
C1_NoRowDeleted ==
  /\ (cpc >= 1 => get_row_count(CurTable) >= before_rows)
  /\ (result.status = "success" => result.after_rows >= result.before_rows)

\* a run that flagged a duplicate row and dropped a column has returned
C1_Witness ==
  /\ cpc = CleanReturned
  /\ result.before_rows >= 2
  /\ "soft_dedup" \in {result.operations[i] : i \in DOMAIN result.operations}
  /\ \E i \in DOMAIN tbl_rows : tbl_rows[i]["is_duplicate"] = "true"
  /\ DOMAIN before_types \ DOMAIN tbl_types /= {}

\* the findings that mark a VARCHAR column of the table as an identifier
LeadingZeroFindings ==
  {f \in findings : /\ f.category = "type_analysis"
                    /\ f.leading_zero_count > 0
                    /\ f.column \in DOMAIN before_types
                    /\ before_types[f.column] = "VARCHAR"}

\* the columns that steps 9 and 10 are told to remove
NamedForRemoval ==
  {f.column : f \in {g \in findings : g.category = "null_analysis"
                                      /\ g.null_rate > 90}}
  \cup UNION {f.columns : f \in {g \in findings : g.category = "constant_columns"}}

\* C4 as stated: after clean_table every column with a leading-zero finding
\* is still in the table and is VARCHAR.
C4_IdentifierPersistsAsText ==
  cpc = CleanReturned =>
    \A f \in LeadingZeroFindings :
      f.column \in DOMAIN tbl_types /\ tbl_types[f.column] = "VARCHAR"

\* C4 amended: a column with a leading-zero finding is never cast (while it
\* is in the table it is VARCHAR), and it leaves the table only when the
\* findings name it as a high-null or constant column.
C4_IdentifierNeverCast ==
  cpc >= 1 =>
    \A f \in LeadingZeroFindings :
      /\ f.column \in DOMAIN tbl_types => tbl_types[f.column] = "VARCHAR"
      /\ f.column \notin DOMAIN tbl_types => f.column \in NamedForRemoval

\* a run has returned in which a leading-zero column with a suggested cast
\* was recorded as identifier and is still VARCHAR
C4_Witness ==
  /\ cpc = CleanReturned
  /\ \E f \in LeadingZeroFindings :
       /\ f.suggested_cast /= "None"
       /\ f.column \in result.identifier_columns
       /\ f.column \in DOMAIN tbl_types
       /\ tbl_types[f.column] = "VARCHAR"

\* C5: no step removes, renames or retypes processed_at or is_duplicate:
\* a protected column present before a step is present with the same type
\* after it.
C5_ProtectedColumnsKept ==
  [][\A c \in PROTECTED_COLUMNS :
       c \in DOMAIN tbl_types =>
         (c \in DOMAIN tbl_types' /\ tbl_types'[c] = tbl_types[c])]_vars

\* a run has returned with both protected columns in place although the
\* findings name a protected column for removal
C5_Witness ==
  /\ cpc = CleanReturned
  /\ NamedForRemoval \cap PROTECTED_COLUMNS /= {}
  /\ "processed_at" \in DOMAIN tbl_types /\ tbl_types["processed_at"] = "TIMESTAMP"
  /\ "is_duplicate" \in DOMAIN tbl_types /\ tbl_types["is_duplicate"] = "BOOLEAN"

\* the canonical order of the operation tags
CANONICAL_ORDER ==
  << "unknown_char_replacement", "whitespace_trimming",
     "empty_string_normalization", "null_like_normalization",
     "date_standardization", "type_coercion", "mixed_case_normalization",
     "soft_dedup", "high_null_column_removal", "constant_column_removal" >>

CanonicalIndex(tag) == CHOOSE i \in DOMAIN CANONICAL_ORDER : CANONICAL_ORDER[i] = tag

IsCanonicalSubsequence(ops) ==
  /\ \A i \in DOMAIN ops : \E k \in DOMAIN CANONICAL_ORDER : CANONICAL_ORDER[k] = ops[i]
  /\ \A i, j \in DOMAIN ops :
       i < j => CanonicalIndex(ops[i]) < CanonicalIndex(ops[j])

\* C6: the operation tags emitted so far, and the returned operations list,
\* are a subsequence of the canonical order (each tag at most once, none
\* before a tag that precedes it).
C6_OperationsInCanonicalOrder ==
  /\ IsCanonicalSubsequence(operations)
  /\ IsCanonicalSubsequence(result.operations)

\* a run has returned with soft_dedup between an earlier and a later operation
C6_Witness ==
  /\ cpc = CleanReturned
  /\ \E i, j, k \in DOMAIN result.operations :
       /\ i < j /\ j < k
       /\ result.operations[j] = "soft_dedup"

\* ------------------------------------------------------------------------
\* Ingestion: load_file and its loaders (tools/ingestion.py)
\*
\* A session table is modelled by its row count.  Source files are UTF-8,
\* so ensure_utf8 hands back the source path.  The statements under
\* datagrunt_agent/sql/ingestion are executed by the analytic engine; what
\* the engine does with a file is an input of the call.
\* ------------------------------------------------------------------------

\* a CSV file: header line or not, data rows, how many of them are entirely
\* empty, how many are malformed, and whether the last line ends in "\n"
CsvFile(tn, header, rws, empty, bad, trailing_nl) ==
  [fmt |-> "csv", table |-> tn, header |-> header, rows |-> rws,
   empty |-> empty, bad |-> bad, trailing_nl |-> trailing_nl, lines |-> <<>>]

CsvFiles ==
  { CsvFile(tn, h, n, e, b, nl) :
      tn \in TableNames, h \in BOOLEAN, nl \in BOOLEAN,
      n \in 0..MaxDataRows, e \in 0..1, b \in 0..1 }

\* line classes of a line-delimited JSON file: blank; valid (json.loads
\* succeeds); repairable (fails as written, succeeds after
\* _repair_json_string); bad (fails before and after the repair)
LineClasses == {"blank", "valid", "repairable", "bad"}

JsonlFile(tn, lines) ==
  [fmt |-> "jsonl", table |-> tn, header |-> FALSE, rows |-> 0, empty |-> 0,
   bad |-> 0, trailing_nl |-> TRUE, lines |-> lines]

JsonlFiles ==
  { JsonlFile(tn, ls) :
      tn \in TableNames,
      ls \in UNION {[1..n -> LineClasses] : n \in 0..MaxLines} }

\* a Parquet file with rws rows, and a file of no supported format
OtherFile(fmt, tn, rws) ==
  [fmt |-> fmt, table |-> tn, header |-> FALSE, rows |-> rws, empty |-> 0,
   bad |-> 0, trailing_nl |-> TRUE, lines |-> <<>>]

OtherFiles ==
  { OtherFile(f, tn, n) : f \in {"parquet", "unknown"}, tn \in TableNames,
                          n \in 1..MaxDataRows }

\* lines of the file as written
PhysicalLines(file) == (IF file.header THEN 1 ELSE 0) + file.rows

\* number of "\n" bytes in the file
NewlineCount(file) ==
  IF PhysicalLines(file) = 0 THEN 0
  ELSE PhysicalLines(file) - (IF file.trailing_nl THEN 0 ELSE 1)

\* core/delimiter_detector.count_source_lines
count_source_lines(file) ==
  IF NewlineCount(file) - 1 > 0 THEN NewlineCount(file) - 1 ELSE 0

\* a CSV file is well formed when its counts fit its rows
WellFormedCsv(file) == file.empty + file.bad <= file.rows

NonBlank(lines) == {i \in DOMAIN lines : lines[i] /= "blank"}

\* core/file_detector.is_empty_file
is_empty_file(file) ==
  CASE file.fmt = "csv"   -> PhysicalLines(file) = 0
    [] file.fmt = "jsonl" -> Len(file.lines) = 0
    [] OTHER              -> FALSE

\* core/file_detector.is_blank_file
is_blank_file(file) == file.fmt = "jsonl" /\ NonBlank(file.lines) = {}

\* the true number of data rows of the source file
SourceDataRows(file) ==
  IF file.fmt = "jsonl" THEN Cardinality(NonBlank(file.lines)) ELSE file.rows

\* what a loader hands back to load_file: it raised or returned res; tbl is
\* the row count of the session table afterwards, tmp_left the temporary
\* files it left on disk and tmp_written the ones it wrote
Returned(res, tbl, tmp_left, tmp_written) ==
  [raised |-> FALSE, res |-> res, tbl |-> tbl, tmp_left |-> tmp_left,
   tmp_written |-> tmp_written]

Raised(tbl, tmp_left, tmp_written) ==
  [raised |-> TRUE, res |-> NoLoadResult, tbl |-> tbl, tmp_left |-> tmp_left,
   tmp_written |-> tmp_written]

LoadError(err, tname, total, source, empty, strategy, unrec) ==
  LoadResult("error", err, tname, total, source, empty, FALSE, strategy,
             unrec, FALSE)

\* ---- CSV ----------------------------------------------------------------

\* parse_configs of _load_csv_robust
CsvConfigs == <<"double-quote", "backslash-escape", "single-quote", "auto-detect">>

\* What the engine does with one CSV statement: it raises, loads every line
\* ("full"), loads every line with a sparse trailing column ("overflow"),
\* or, for the lenient statement only, skips the malformed rows ("skip").
\* fast is the outcome of the fast-path statement, cfg[i] of parse_configs[i].
CsvEngine(fast, c1, c2, c3, c4) == [fast |-> fast, cfg |-> <<c1, c2, c3, c4>>]

CsvEngines ==
  { CsvEngine("full", "full", "full", "full", "full"),
    CsvEngine("overflow", "overflow", "full", "full", "full"),
    CsvEngine("raise", "raise", "full", "full", "full"),
    CsvEngine("raise", "raise", "overflow", "full", "skip"),
    CsvEngine("raise", "raise", "overflow", "raise", "overflow"),
    CsvEngine("raise", "raise", "overflow", "overflow", "skip"),
    CsvEngine("raise", "raise", "raise", "raise", "skip"),
    CsvEngine("raise", "raise", "raise", "raise", "full"),
    CsvEngine("raise", "raise", "raise", "raise", "raise") }

\* rows in the table after one CSV statement that did not raise: the
\* load_csv statements let the engine find the header line, the no_header
\* statements read every line as data
EngineLoadCsv(file, has_header, outcome) ==
  PhysicalLines(file)
    - (IF has_header /\ file.header THEN 1 ELSE 0)
    - (IF outcome = "skip" THEN file.bad ELSE 0)

\* len(_check_overflow_columns(...)) after a statement with this outcome
OverflowCount(outcome) == IF outcome = "overflow" THEN 1 ELSE 0

\* _load_csv_standard
load_csv_standard(file, eng, prev) ==
  IF eng.fast = "raise" THEN Raised(prev, 0, 0)
  ELSE LET loaded == EngineLoadCsv(file, TRUE, eng.fast)
           empty_rows_removed == file.empty
           total_rows == loaded - empty_rows_removed
       IN Returned(LoadResult("success", "", file.table, total_rows, NoTable,
                              empty_rows_removed, FALSE, "standard", {}, FALSE),
                   total_rows, 0, 0)

\* the for loop of _load_csv_robust from parse_configs[i] on; acc.best is
\* best_config (0 for None), acc.last the configuration loaded last
RECURSIVE TryConfigs(_, _, _)
TryConfigs(cfg, i, acc) ==
  IF i > Len(cfg) THEN acc
  ELSE IF cfg[i] = "raise" THEN TryConfigs(cfg, i + 1, acc)
  ELSE LET overflow == OverflowCount(cfg[i])
           loaded == [acc EXCEPT !.last = i]
       IN IF acc.best = 0 \/ overflow < acc.best_overflow
          THEN LET better == [loaded EXCEPT !.best = i, !.best_overflow = overflow]
               IN IF overflow = 0 THEN better ELSE TryConfigs(cfg, i + 1, better)
          ELSE TryConfigs(cfg, i + 1, loaded)

\* the configuration whose load is in the table after the loop and the
\* reload of best_config (0: no configuration loaded)
ConfigInTable(tried) ==
  IF tried.best /= 0 /\ tried.best /= Len(CsvConfigs) THEN tried.best ELSE tried.last

\* _load_csv_robust, lines 532-592: the row-count check and the result
csv_robust_result(file, source_line_count, strategy, total_rows, empty_rows_removed) ==
  IF source_line_count - total_rows - empty_rows_removed > 0
  THEN Returned(LoadError("atomic_load_failed", "", total_rows, source_line_count,
                          empty_rows_removed, strategy, {}),
                total_rows, 0, 0)
  ELSE Returned(LoadResult("success", "", file.table, total_rows, source_line_count,
                           empty_rows_removed, FALSE, strategy, {}, FALSE),
                total_rows, 0, 0)

\* _load_csv_robust, lines 507-530, after the configuration loop; when no
\* configuration loaded, the helpers work on the table an earlier call left
\* under that name, or raise when there is none
csv_robust_loaded(file, eng, has_header, prev, tried) ==
  IF ConfigInTable(tried) = 0
  THEN IF prev = NoTable THEN Raised(prev, 0, 0)
       ELSE csv_robust_result(file, count_source_lines(file), "unknown", prev, 0)
  ELSE csv_robust_result(
         file, count_source_lines(file), CsvConfigs[tried.best],
         EngineLoadCsv(file, has_header, eng.cfg[ConfigInTable(tried)]) - file.empty,
         file.empty)

\* _load_csv_robust
load_csv_robust(file, eng, has_header, prev) ==
  csv_robust_loaded(file, eng, has_header, prev,
                    TryConfigs(eng.cfg, 1, [best |-> 0, best_overflow |-> 0, last |-> 0]))

\* ---- JSON ---------------------------------------------------------------

\* _detect_json_format: decided by the first non-blank line
detect_json_format(lines) ==
  IF NonBlank(lines) = {} THEN "auto"
  ELSE LET first == CHOOSE i \in NonBlank(lines) : \A j \in NonBlank(lines) : i <= j
       IN IF lines[first] = "bad" THEN "auto" ELSE "newline_delimited"

\* _validate_json, line-delimited branch
validate_json(lines) ==
  LET errors == {i \in NonBlank(lines) : lines[i] /= "valid"}
  IN [valid |-> errors = {}, errors |-> errors]

\* the non-blank lines of a repaired copy: every line kept is valid JSON
RepairedLines(lines, kept) ==
  [k \in 1..Cardinality(kept) |-> "valid"]

\* mutant: unrecoverable lines are skipped and the rest is written
repair_json_skips_unrecoverable(lines) ==
  LET good == {i \in NonBlank(lines) : lines[i] \in {"valid", "repairable"}}
  IN [repair_failed |-> FALSE, unrecoverable_errors |-> {},
      repaired_lines |-> RepairedLines(lines, good),
      lines_repaired |-> Cardinality({i \in good : lines[i] = "repairable"}),
      written |-> 1]

\* _repair_json, line-delimited branch
repair_json(lines) ==
  LET repaired == {i \in NonBlank(lines) : lines[i] \in {"valid", "repairable"}}
      unrecoverable == {i \in NonBlank(lines) : lines[i] = "bad"}
  IN IF unrecoverable /= {}
     THEN [repair_failed |-> TRUE, unrecoverable_errors |-> unrecoverable,
           repaired_lines |-> <<>>, lines_repaired |-> 0, written |-> 0]
     ELSE [repair_failed |-> FALSE, unrecoverable_errors |-> {},
           repaired_lines |-> RepairedLines(lines, repaired),
           lines_repaired |-> Cardinality({i \in repaired : lines[i] = "repairable"}),
           written |-> 1]

\* the engine's JSON reader: it rejects a file with a line that is not valid
\* JSON, and may reject any file for reasons of its own
EngineJsonRaises(lines, engine_rejects) ==
  engine_rejects \/ \E i \in NonBlank(lines) : lines[i] /= "valid"

\* _load_json_standard
load_json_standard(file, engine_rejects, prev) ==
  IF EngineJsonRaises(file.lines, engine_rejects) THEN Raised(prev, 0, 0)
  ELSE LET total_rows == Cardinality(NonBlank(file.lines))
       IN Returned(LoadResult("success", "", file.table, total_rows, NoTable,
                              0, FALSE, "", {}, FALSE),
                   total_rows, 0, 0)

\* _load_json_robust
load_json_robust(file, engine_rejects, prev) ==
  LET validation == validate_json(file.lines)
      repair_result == repair_json(file.lines)
      repaired == ~validation.valid
      load_lines == IF repaired THEN repair_result.repaired_lines ELSE file.lines
      written == IF repaired THEN repair_result.written ELSE 0
      total_rows == Cardinality(NonBlank(load_lines))
  IN IF repaired /\ repair_result.repair_failed
     THEN Returned(LoadError("json_unrecoverable", "", 0, NoTable, 0, "",
                             repair_result.unrecoverable_errors),
                   prev, written, written)
     ELSE IF EngineJsonRaises(load_lines, engine_rejects)
     THEN Raised(prev, written, written)   \* the copy is not unlinked
     ELSE Returned(LoadResult("success", "", file.table, total_rows, NoTable,
                              0, FALSE, "", {}, repaired),
                   total_rows, 0, written)

\* ---- load_file -----------------------------------------------------------

\* the session and the tool state as load_file sees them
World == [db |-> db_tables, registry |-> registry,
          loaded_tables |-> loaded_tables, current |-> current_table,
          tmp |-> tmp_files]

\* what the engine and the services do during one call: the header
\* classifier's answer, the CSV and JSON readers, and whether the
\* processed_at stamp or the Parquet export raises
Env(has_header, csv, json_rejects, native_raises, post) ==
  [has_header |-> has_header, csv |-> csv, json_rejects |-> json_rejects,
   native_raises |-> native_raises, post |-> post]

PostOutcomes == {"ok", "stamp_raises", "export_raises"}

CallDone(res, W, written) == [res |-> res, world |-> W, tmp_written |-> written]

\* mutant: the table is registered before the stamp and the export
post_load_registers_first(res, file, post, W) ==
  LET tn == file.table
      W1 == [W EXCEPT !.current = tn,
                      !.registry[tn] = res.total_rows,
                      !.loaded_tables[tn] = res.total_rows]
  IN CASE post = "stamp_raises" ->
            [res |-> LoadError("stamp_failed", tn, 0, NoTable, 0, "", {}), world |-> W1]
       [] post = "export_raises" ->
            [res |-> LoadError("export_failed", tn, 0, NoTable, 0, "", {}), world |-> W1]
       [] OTHER -> [res |-> res, world |-> W1]

\* load_file, lines 1087-1138: state writes, stamp, export, registration
post_load(res, file, post, W) ==
  LET tn == file.table
      W1 == [W EXCEPT !.current = tn]
  IN CASE post = "stamp_raises" ->
            [res |-> LoadError("stamp_failed", tn, 0, NoTable, 0, "", {}), world |-> W1]
       [] post = "export_raises" ->
            [res |-> LoadError("export_failed", tn, 0, NoTable, 0, "", {}), world |-> W1]
       [] OTHER ->
            [res |-> res,
             world |-> [W1 EXCEPT !.registry[tn] = res.total_rows,
                                  !.loaded_tables[tn] = res.total_rows]]

\* load_file, lines 956-1026: the fast path
standard_load(file, env, prev) ==
  CASE file.fmt = "csv"   -> load_csv_standard(file, env.csv, prev)
    [] file.fmt = "jsonl" -> load_json_standard(file, env.json_rejects, prev)
    [] OTHER              -> IF env.native_raises THEN Raised(prev, 0, 0)
                             ELSE Returned(LoadResult("success", "", file.table,
                                                      file.rows, NoTable, 0, FALSE,
                                                      "", {}, FALSE),
                                           file.rows, 0, 0)

\* load_file, lines 1029-1074: recovery
recovery_load(file, env, prev) ==
  LET out ==
        CASE file.fmt = "csv"   -> load_csv_robust(file, env.csv, env.has_header, prev)
          [] file.fmt = "jsonl" -> load_json_robust(file, env.json_rejects, prev)
          [] OTHER -> Returned(LoadError("recovery_not_available", "", 0, NoTable,
                                         0, "", {}), prev, 0, 0)
  IN IF out.raised
     THEN [out EXCEPT !.raised = FALSE,
                      !.res = LoadError("failed_to_load", "", 0, NoTable, 0, "", {})]
     ELSE IF out.res.status = "success"
     THEN [out EXCEPT !.res.recovery_used = TRUE]
     ELSE out

\* load_file
load_file(file, env, W) ==
  LET tn == file.table
      prev == W.db[tn]
      fast == standard_load(file, env, prev)
      out == IF fast.raised THEN recovery_load(file, env, prev) ELSE fast
      W1 == [W EXCEPT !.db[tn] = out.tbl, !.tmp = W.tmp + out.tmp_left]
  IN IF is_empty_file(file)
     THEN CallDone(LoadError("empty_file", "", 0, NoTable, 0, "", {}), W, 0)
     ELSE IF is_blank_file(file)
     THEN CallDone(LoadError("blank_file", "", 0, NoTable, 0, "", {}), W, 0)
     ELSE IF file.fmt = "unknown"
     THEN CallDone(LoadError("unsupported_format", "", 0, NoTable, 0, "", {}), W, 0)
     ELSE IF out.res.status = "error"
     THEN CallDone(out.res, W1, out.tmp_written)
     ELSE LET done == post_load(out.res, file, env.post, W1)
          IN CallDone(done.res, done.world, out.tmp_written)

\* one load_file call on a session that may hold earlier loads
LoadFile(file, env) ==
  \E done \in {load_file(file, env, World)} :
  /\ load_calls' = load_calls + 1
  /\ db_tables' = done.world.db
  /\ registry' = done.world.registry
  /\ loaded_tables' = done.world.loaded_tables
  /\ current_table' = done.world.current
  /\ tmp_files' = done.world.tmp
  /\ load_call' = [fmt |-> file.fmt, table |-> file.table,
                   data_rows |-> SourceDataRows(file), lines |-> file.lines,
                   tmp_written |-> done.tmp_written]
  /\ load_result' = done.res
  /\ UNCHANGED notLoadVars

\* the header classifier is consulted on the recovery path only
LoadCsvFile ==
  /\ load_calls < MaxLoadCalls
  /\ \E file \in {f \in CsvFiles : WellFormedCsv(f)}, eng \in CsvEngines,
        post \in PostOutcomes :
       \E has_header \in IF eng.fast = "raise" THEN BOOLEAN ELSE {TRUE} :
         LoadFile(file, Env(has_header, eng, FALSE, FALSE, post))

LoadJsonFile ==
  /\ load_calls < MaxLoadCalls
  /\ \E file \in JsonlFiles, rejects \in BOOLEAN, post \in PostOutcomes :
       LoadFile(file, Env(TRUE, CsvEngine("full", "full", "full", "full", "full"),
                          rejects, FALSE, post))

LoadOtherFile ==
  /\ load_calls < MaxLoadCalls
  /\ \E file \in OtherFiles, raises \in BOOLEAN, post \in PostOutcomes :
       LoadFile(file, Env(TRUE, CsvEngine("full", "full", "full", "full", "full"),
                          FALSE, raises, post))

CleanIdle ==
  /\ tbl_types = LoadedTypes
  /\ tbl_rows = <<>>
  /\ findings = {}
  /\ cpc = 0
  /\ varchar_cols = {}
  /\ operations = <<>>
  /\ before_types = LoadedTypes
  /\ before_rows = 0
  /\ result = NoResult

InitLoad == LoadIdle /\ CleanIdle /\ LakeIdle /\ AgentIdle /\ FunIdle /\ LogIdle /\ RerunIdle

NextLoad == LoadCsvFile \/ LoadJsonFile \/ LoadOtherFile

SpecLoad == InitLoad /\ [][NextLoad]_vars

\* ------------------------------------------------------------------------
\* Properties of the ingestion loader (checked under SpecLoad)
\* ------------------------------------------------------------------------

\* C2: every load_file call that returns success, from the fast path or from
\* recovery, loaded a table whose row count plus the reported
\* empty_rows_removed is at least the number of data rows of the source file.
C2_SuccessKeepsEverySourceRow ==
  load_result.status = "success" =>
    load_result.total_rows + load_result.empty_rows_removed >= load_call.data_rows

\* C3: a load_file call that returns an error leaves the table registry and
\* the loaded_tables state as they were; only a call that returns success
\* changes them, and only at the entry of the table it loaded.
C3_ErrorRegistersNothing ==
  [][ /\ load_result'.status = "error" =>
           registry' = registry /\ loaded_tables' = loaded_tables
      /\ (registry' /= registry \/ loaded_tables' /= loaded_tables) =>
           /\ load_result'.status = "success"
           /\ \A t \in TableNames \ {load_result'.table_name} :
                registry'[t] = registry[t] /\ loaded_tables'[t] = loaded_tables[t]
    ]_vars

\* a call got as far as the Parquet export, failed there, and its table is
\* in the session but in neither registry
C3_Witness ==
  /\ load_result.status = "error"
  /\ load_result.error = "export_failed"
  /\ db_tables[load_call.table] /= NoTable
  /\ registry[load_call.table] = NoTable
  /\ loaded_tables[load_call.table] = NoTable

\* the lines of a file that parse neither as written nor after the repair
UnrecoverableLines(lines) == {i \in NonBlank(lines) : lines[i] = "bad"}

\* C7: a load_file call on a line-delimited JSON file with at least one
\* unrecoverable line returns the unrecoverable-lines error listing every
\* such line, writes no repaired copy and leaves the session tables as they
\* were; a repaired copy is written only when every line is recoverable.
C7_JsonlRepairAllOrNothing ==
  [][ (load_calls' /= load_calls /\ load_call'.fmt = "jsonl") =>
        /\ UnrecoverableLines(load_call'.lines) /= {} =>
             /\ load_result'.status = "error"
             /\ load_result'.error = "json_unrecoverable"
             /\ load_result'.unrecoverable_errors = UnrecoverableLines(load_call'.lines)
             /\ load_call'.tmp_written = 0
             /\ tmp_files' = tmp_files
             /\ db_tables' = db_tables
        /\ (load_call'.tmp_written > 0 \/ load_result'.json_repair) =>
             UnrecoverableLines(load_call'.lines) = {}
    ]_vars

\* a file with two unrecoverable lines and a repairable one was refused
C7_Witness ==
  /\ load_call.fmt = "jsonl"
  /\ load_result.error = "json_unrecoverable"
  /\ Cardinality(load_result.unrecoverable_errors) = 2
  /\ \E i \in DOMAIN load_call.lines : load_call.lines[i] = "repairable"

\* ------------------------------------------------------------------------
\* The lakehouse loader (services/loader/bigquery_manager.py, main.py).
\* A value is "i:<n>" for an INT64, "s:<text>" for a STRING, Null for NULL.
\* ------------------------------------------------------------------------

\* the lowercased column names in use; a row maps each of them to a value
LakeColumns == {"id", "name", "tag", "score"}

SchemaField(name, field_type) == [name |-> name, field_type |-> field_type]

LakeRow(id, name, tag, score) ==
  [id |-> id, name |-> name, tag |-> tag, score |-> score]

\* the staged Parquet files, by parquet_uri
ParquetFiles ==
  [uri \in {"base", "wide", "nullkey", "text"} |->
     CASE uri = "base" ->
            [schema |-> <<SchemaField("id", "INTEGER"), SchemaField("name", "STRING")>>,
             rows |-> {LakeRow("i:1", "s:a", Null, Null),
                       LakeRow("i:2", "s:b", Null, Null)}]
       [] uri = "wide" ->
            [schema |-> <<SchemaField("id", "INTEGER"), SchemaField("name", "STRING"),
                          SchemaField("tag", "STRING")>>,
             rows |-> {LakeRow("i:1", "s:c", "s:t", Null)}]
       [] uri = "nullkey" ->
            [schema |-> <<SchemaField("id", "INTEGER"), SchemaField("name", "STRING")>>,
             rows |-> {LakeRow(Null, "s:n", Null, Null)}]
       [] OTHER ->
            [schema |-> <<SchemaField("ID", "STRING"), SchemaField("tag", "STRING"),
                          SchemaField("score", "INTEGER")>>,
             rows |-> {LakeRow("s:1", Null, "s:u", "i:2"),
                       LakeRow("s:x", Null, "s:u", Null)}]]

UpsertKeySets == {<<"id">>, <<"id", "name">>}

LoadRequest(uri, write_mode, upsert_keys) ==
  [parquet |-> uri, write_mode |-> write_mode, upsert_keys |-> upsert_keys]

\* the requests parse_load_request lets through
LoadRequests ==
  {LoadRequest(u, m, <<>>) : u \in DOMAIN ParquetFiles, m \in {"APPEND", "OVERWRITE"}}
    \cup {LoadRequest(u, "UPSERT", k) : u \in DOMAIN ParquetFiles, k \in UpsertKeySets}

\* str.lower() on the column names in use
NameLower(name) == IF name = "ID" THEN "id" ELSE name

BQ_TYPE_MAP ==
  [t \in {"INTEGER", "FLOAT", "BOOLEAN", "STRING"} |->
     CASE t = "INTEGER" -> "INT64"
       [] t = "FLOAT" -> "FLOAT64"
       [] t = "BOOLEAN" -> "BOOL"
       [] OTHER -> "STRING"]

to_sql_type(field_type) ==
  IF field_type \in DOMAIN BQ_TYPE_MAP THEN BQ_TYPE_MAP[field_type] ELSE field_type

\* the field_type the client reports for a column declared with a SQL type
client_field_type(sql_type) ==
  IF \E t \in DOMAIN BQ_TYPE_MAP : BQ_TYPE_MAP[t] = sql_type
    THEN CHOOSE t \in DOMAIN BQ_TYPE_MAP : BQ_TYPE_MAP[t] = sql_type
    ELSE sql_type

\* SAFE_CAST(v AS sql_type): NULL when the value does not convert
SAFE_CAST(v, sql_type) ==
  CASE v = Null -> Null
    [] sql_type = "STRING" ->
         (CASE v = "i:1" -> "s:1" [] v = "i:2" -> "s:2" [] OTHER -> v)
    [] sql_type = "INT64" ->
         (CASE v = "s:1" -> "i:1" [] v = "s:2" -> "i:2"
            [] v \in {"i:1", "i:2"} -> v [] OTHER -> Null)
    [] OTHER -> Null

\* a = b in a WHERE clause: true only when both sides are non-NULL and equal
SqlEquals(a, b) == a /= Null /\ b /= Null /\ a = b

\* table_exists: any exception of get_table reads as "does not exist"
table_exists(exists, get_table_raises) == exists /\ ~get_table_raises

\* handle_pubsub: the call it makes for a request
dispatch(exists, write_mode) ==
  IF exists THEN (IF write_mode = "UPSERT" THEN "upsert" ELSE "load") ELSE "create"

\* evolve_schema: the lowercased names of the target's columns
existing_names(schema) == {NameLower(schema[i].name) : i \in DOMAIN schema}

FieldByName(schema, name_lower) ==
  schema[CHOOSE i \in DOMAIN schema : NameLower(schema[i].name) = name_lower]

\* evolve_schema: the Parquet fields the target lacks
new_columns(schema, parquet_schema) ==
  SelectSeq(parquet_schema, LAMBDA f : NameLower(f.name) \notin existing_names(schema))

\* ALTER TABLE ... ADD COLUMN name type: an error when the column exists
alter_table_add_column(schema, field) ==
  IF NameLower(field.name) \in existing_names(schema)
    THEN [ok |-> FALSE, schema |-> schema]
    ELSE [ok |-> TRUE,
          schema |-> Append(schema, SchemaField(field.name,
                              client_field_type(to_sql_type(field.field_type))))]

TaggedRows(rws, load_id) == {[load |-> load_id, data |-> r] : r \in rws}

Target(exists, schema, rws) == [exists |-> exists, schema |-> schema, rows |-> rws]

\* a variant that replaces an existing table
create_or_replace_table_as_select(T, parquet, load_id) ==
  [ok |-> TRUE, target |-> Target(TRUE, parquet.schema, TaggedRows(parquet.rows, load_id))]

\* CREATE TABLE ... AS SELECT * FROM temp: an error when the table exists
create_table_as_select(T, parquet, load_id) ==
  IF T.exists
    THEN [ok |-> FALSE, target |-> T]
    ELSE [ok |-> TRUE,
          target |-> Target(TRUE, parquet.schema, TaggedRows(parquet.rows, load_id))]

SelectItem(expr, column, sql_type) ==
  [expr |-> expr, column |-> column, sql_type |-> sql_type]

\* _build_cast_select: the select expression for one target field
cast_select_item(field, source_schema) ==
  IF NameLower(field.name) \in existing_names(source_schema)
    THEN IF to_sql_type(FieldByName(source_schema, NameLower(field.name)).field_type)
              /= to_sql_type(field.field_type)
           THEN SelectItem("SAFE_CAST", field.name, to_sql_type(field.field_type))
           ELSE SelectItem("COLUMN", field.name, to_sql_type(field.field_type))
    ELSE SelectItem("NULL", field.name, to_sql_type(field.field_type))

ExtraItems(fields) ==
  [i \in DOMAIN fields |->
     SelectItem("COLUMN", fields[i].name, to_sql_type(fields[i].field_type))]

build_cast_select(target_schema, source_schema) ==
  [i \in DOMAIN target_schema |-> cast_select_item(target_schema[i], source_schema)]
    \o ExtraItems(new_columns(target_schema, source_schema))

\* the value a select expression yields on one source row
EvalItem(item, source_row) ==
  CASE item.expr = "COLUMN" -> source_row[NameLower(item.column)]
    [] item.expr = "SAFE_CAST" -> SAFE_CAST(source_row[NameLower(item.column)], item.sql_type)
    [] OTHER -> Null

\* the target row a positional INSERT makes of one source row
InsertedRow(schema, select_cols, source_row) ==
  [c \in LakeColumns |->
     IF c \in existing_names(schema)
       THEN EvalItem(select_cols[CHOOSE i \in DOMAIN schema : NameLower(schema[i].name) = c],
                     source_row)
       ELSE Null]

\* INSERT INTO target SELECT select_clause FROM temp: an error when the
\* select list and the target differ in their number of columns
insert_select(schema, rws, select_cols, parquet, load_id) ==
  IF Len(select_cols) /= Len(schema)
    THEN [ok |-> FALSE, rows |-> rws]
    ELSE [ok |-> TRUE,
          rows |-> rws \cup TaggedRows({InsertedRow(schema, select_cols, r) : r \in parquet.rows},
                                       load_id)]

\* a variant that joins the key comparisons with OR
join_condition_any_key(target_row, source_row, upsert_keys) ==
  \E i \in DOMAIN upsert_keys :
    SqlEquals(target_row[NameLower(upsert_keys[i])], source_row[NameLower(upsert_keys[i])])

\* upsert_data: target.k = source.k for every upsert key
join_condition(target_row, source_row, upsert_keys) ==
  \A i \in DOMAIN upsert_keys :
    SqlEquals(target_row[NameLower(upsert_keys[i])], source_row[NameLower(upsert_keys[i])])

\* the key comparison compiles: every key is a column of both tables, with
\* the same type on both sides
JoinCompiles(schema, source_schema, upsert_keys) ==
  \A i \in DOMAIN upsert_keys :
    /\ NameLower(upsert_keys[i]) \in existing_names(schema)
    /\ NameLower(upsert_keys[i]) \in existing_names(source_schema)
    /\ to_sql_type(FieldByName(schema, NameLower(upsert_keys[i])).field_type)
         = to_sql_type(FieldByName(source_schema, NameLower(upsert_keys[i])).field_type)

\* DELETE FROM target WHERE EXISTS (SELECT 1 FROM source WHERE join_condition)
delete_matching(schema, rws, parquet, upsert_keys) ==
  IF ~JoinCompiles(schema, parquet.schema, upsert_keys)
    THEN [ok |-> FALSE, rows |-> rws]
    ELSE [ok |-> TRUE,
          rows |-> {t \in rws :
                      ~\E s \in parquet.rows : join_condition(t.data, s, upsert_keys)}]

TempName(path, load_id) ==
  <<CASE path = "create" -> "_temp_create_"
      [] path = "load" -> "_temp_load_"
      [] OTHER -> "_temp_upsert_",
    load_id>>

ParquetOf(p) == ParquetFiles[inv[p].request.parquet]

\* ------------------------------------------------------------------------
\* message_parser.py: the load request message
\* ------------------------------------------------------------------------

\* JSON values: null, a string, a list, a number; Absent stands for a key
\* the message does not have
None == [none |-> TRUE]

Absent == [absent |-> TRUE]

Str(s) == [str |-> s]

List(items) == [list |-> items]

Num(n) == [num |-> n]

REQUIRED_FIELDS ==
  {"file_hash", "parquet_uri", "target_namespace", "target_table", "original_file_uri"}

DEFAULTS == [write_mode |-> Str("APPEND"), upsert_keys |-> List(<<>>)]

RequiredValues == {Absent, None, Str(""), Str("x")}

WriteModeValues ==
  {Absent, None, Str(""), Str("append"), Str("APPEND"), Str("Overwrite"),
   Str("OVERWRITE"), Str("upsert"), Str("UPSERT"), Str("MERGE"), Num(1)}

UpsertKeysValues == {Absent, None, List(<<>>), List(<<"id">>)}

\* the messages a publisher can send
Messages ==
  [file_hash : RequiredValues, parquet_uri : RequiredValues,
   target_namespace : RequiredValues, target_table : RequiredValues,
   original_file_uri : RequiredValues, write_mode : WriteModeValues,
   upsert_keys : UpsertKeysValues]

\* dict.get(key): None for a key that is absent
Get(raw, key) == IF raw[key] = Absent THEN None ELSE raw[key]

\* "not value"
Falsy(value) == value \in {None, Str(""), List(<<>>), Num(0)}

\* str.upper() that leaves the text as it is
str_upper_identity(text) == text

\* str.upper() on the write modes in use
str_upper(text) ==
  CASE text = "append" -> "APPEND"
    [] text = "Overwrite" -> "OVERWRITE"
    [] text = "upsert" -> "UPSERT"
    [] OTHER -> text

ParseRaised(exc) == [raised |-> exc, parsed |-> None]

\* parse_load_request(raw): the exception raised, or the parsed request
\* (partition_spec and schema are defaulted the same way and not used)
parse_load_request(raw) ==
  LET missing == {f \in REQUIRED_FIELDS : Falsy(Get(raw, f))}
      defaulted == [key \in DOMAIN raw |->
                      IF key \in DOMAIN DEFAULTS /\ raw[key] \in {Absent, None}
                        THEN DEFAULTS[key] ELSE raw[key]]
  IN  IF missing /= {} THEN ParseRaised("ValueError")
      ELSE IF "str" \notin DOMAIN defaulted.write_mode THEN ParseRaised("AttributeError")
      ELSE LET parsed == [defaulted EXCEPT !.write_mode = Str(str_upper(@.str))]
           IN  IF parsed.write_mode.str \notin {"APPEND", "OVERWRITE", "UPSERT"}
                 THEN ParseRaised("ValueError")
               ELSE IF parsed.write_mode.str = "UPSERT" /\ Falsy(Get(parsed, "upsert_keys"))
                 THEN ParseRaised("ValueError")
               ELSE [raised |-> "", parsed |-> parsed]

\* the event bus delivers request r to handler p again: the handling before
\* this one was of the same APPEND request, its load returned, and the
\* handler answered with a failure
IsRedelivery(p, r) ==
  /\ r.write_mode = "APPEND"
  /\ inv[p].request = r
  /\ inv[p].error = ""
  /\ inv[p].event = "LOADER_BIGQUERY_FAILED"

\* handle_pubsub is called with a parsed request
LakeStart(p, limit) ==
  /\ inv[p].pc = "idle"
  /\ lake_calls < limit
  /\ \E r \in LoadRequests :
       inv' = [inv EXCEPT ![p] =
                 [IdleInvocation EXCEPT !.pc = "table_exists", !.request = r,
                                        !.load_id = lake_calls + 1,
                                        !.redelivery_of =
                                           IF IsRedelivery(p, r) THEN inv[p].load_id ELSE 0,
                                        !.prior_exists = tgt_exists,
                                        !.prior_schema = tgt_schema,
                                        !.prior_rows = tgt_rows]]
  /\ lake_calls' = lake_calls + 1
  /\ UNCHANGED <<tgt_exists, tgt_schema, tgt_rows, temps, notLakeVars>>

\* handle_pubsub: the existence check and the choice of the call
TableExists(p) ==
  /\ inv[p].pc = "table_exists"
  /\ \E get_table_raises \in BOOLEAN :
       \E path \in {dispatch(table_exists(tgt_exists, get_table_raises),
                             inv[p].request.write_mode)} :
         inv' = [inv EXCEPT ![p].path = path,
                            ![p].pc = IF path = "create" THEN "create_temp"
                                                         ELSE "evolve_schema"]
  /\ UNCHANGED <<tgt_exists, tgt_schema, tgt_rows, temps, lake_calls, notLakeVars>>

\* evolve_schema: the pre-check (get_table, schema probe, new_columns)
EvolveSchema(p) ==
  /\ inv[p].pc = "evolve_schema"
  /\ \E added \in {new_columns(tgt_schema, ParquetOf(p).schema)} :
       inv' = [inv EXCEPT ![p].new_columns = added,
                          ![p].pc = IF added = <<>> THEN "create_temp" ELSE "alter_table"]
  /\ UNCHANGED <<tgt_exists, tgt_schema, tgt_rows, temps, lake_calls, notLakeVars>>

\* evolve_schema: one ALTER TABLE ADD COLUMN of the loop
AlterTable(p) ==
  /\ inv[p].pc = "alter_table"
  /\ \E done \in {alter_table_add_column(tgt_schema, Head(inv[p].new_columns))} :
       /\ tgt_schema' = done.schema
       /\ inv' = [inv EXCEPT
                    ![p].new_columns = IF done.ok THEN Tail(@) ELSE @,
                    ![p].error = IF done.ok THEN "" ELSE "duplicate_column",
                    ![p].pc = IF ~done.ok THEN "raised"
                              ELSE IF Tail(inv[p].new_columns) = <<>> THEN "create_temp"
                              ELSE "alter_table"]
  /\ UNCHANGED <<tgt_exists, tgt_rows, temps, lake_calls, notLakeVars>>

\* CREATE OR REPLACE EXTERNAL TABLE _temp_<kind>_<suffix>
CreateTemp(p) ==
  /\ inv[p].pc = "create_temp"
  /\ temps' = temps \cup {TempName(inv[p].path, inv[p].load_id)}
  /\ inv' = [inv EXCEPT ![p].pc = CASE inv[p].path = "create" -> "create_table"
                                    [] inv[p].path = "load" -> "build_cast_select"
                                    [] OTHER -> "delete_matching"]
  /\ UNCHANGED <<tgt_exists, tgt_schema, tgt_rows, lake_calls, notLakeVars>>

\* create_iceberg_table: CREATE TABLE ... AS SELECT
CreateTable(p) ==
  /\ inv[p].pc = "create_table"
  /\ \E done \in {create_table_as_select(Target(tgt_exists, tgt_schema, tgt_rows),
                                         ParquetOf(p), inv[p].load_id)} :
       /\ tgt_exists' = done.target.exists
       /\ tgt_schema' = done.target.schema
       /\ tgt_rows' = done.target.rows
       /\ inv' = [inv EXCEPT ![p].error = IF done.ok THEN "" ELSE "already_exists",
                             ![p].pc = "drop_temp"]
  /\ UNCHANGED <<temps, lake_calls, notLakeVars>>

\* load_data, upsert_data: the cast SELECT is built from the schemas read now
BuildCastSelect(p) ==
  /\ inv[p].pc = "build_cast_select"
  /\ inv' = [inv EXCEPT
               ![p].select_cols = build_cast_select(tgt_schema, ParquetOf(p).schema),
               ![p].pc = IF inv[p].path = "load" /\ inv[p].request.write_mode = "OVERWRITE"
                           THEN "delete_all" ELSE "insert"]
  /\ UNCHANGED <<tgt_exists, tgt_schema, tgt_rows, temps, lake_calls, notLakeVars>>

\* load_data, OVERWRITE: DELETE FROM target WHERE TRUE
DeleteAll(p) ==
  /\ inv[p].pc = "delete_all"
  /\ tgt_rows' = {}
  /\ inv' = [inv EXCEPT ![p].pc = "insert"]
  /\ UNCHANGED <<tgt_exists, tgt_schema, temps, lake_calls, notLakeVars>>

\* upsert_data: the DELETE of the rows that match a source key
DeleteMatching(p) ==
  /\ inv[p].pc = "delete_matching"
  /\ \E done \in {delete_matching(tgt_schema, tgt_rows, ParquetOf(p),
                                  inv[p].request.upsert_keys)} :
       /\ tgt_rows' = done.rows
       /\ inv' = [inv EXCEPT ![p].error = IF done.ok THEN "" ELSE "invalid_query",
                             ![p].pc = IF done.ok THEN "build_cast_select" ELSE "drop_temp"]
  /\ UNCHANGED <<tgt_exists, tgt_schema, temps, lake_calls, notLakeVars>>

\* load_data, upsert_data: the INSERT
Insert(p) ==
  /\ inv[p].pc = "insert"
  /\ \E done \in {insert_select(tgt_schema, tgt_rows, inv[p].select_cols,
                                ParquetOf(p), inv[p].load_id)} :
       /\ tgt_rows' = done.rows
       /\ inv' = [inv EXCEPT ![p].error = IF done.ok THEN "" ELSE "column_mismatch",
                             ![p].pc = "drop_temp"]
  /\ UNCHANGED <<tgt_exists, tgt_schema, temps, lake_calls, notLakeVars>>

\* mutant: a failed job leaves the call at once, without the finally block
JobFails_skips_finally(p) ==
  /\ inv[p].path \in {"load", "upsert"}
  /\ inv[p].pc \in {"create_temp", "build_cast_select", "delete_all", "delete_matching",
                    "insert"}
  /\ inv' = [inv EXCEPT ![p].error = "job_failed", ![p].pc = "raised"]
  /\ UNCHANGED <<tgt_exists, tgt_schema, tgt_rows, temps, lake_calls, notLakeVars>>

\* load_data, upsert_data: the BigQuery job of the step in progress fails
\* (client.query(...).result() or get_table raises) and changes nothing; the
\* CREATE of the temporary table is before the try block, the other steps
\* are left through the finally block
JobFails(p) ==
  /\ inv[p].path \in {"load", "upsert"}
  /\ inv[p].pc \in {"create_temp", "build_cast_select", "delete_all", "delete_matching",
                    "insert"}
  /\ inv' = [inv EXCEPT ![p].error = "job_failed",
                        ![p].pc = IF inv[p].pc = "create_temp" THEN "raised" ELSE "drop_temp"]
  /\ UNCHANGED <<tgt_exists, tgt_schema, tgt_rows, temps, lake_calls, notLakeVars>>

\* the finally block: DROP EXTERNAL TABLE IF EXISTS, then return or re-raise
DropTemp(p) ==
  /\ inv[p].pc = "drop_temp"
  /\ temps' = temps \ {TempName(inv[p].path, inv[p].load_id)}
  /\ inv' = [inv EXCEPT ![p].pc = IF inv[p].error = "" THEN "returned" ELSE "raised"]
  /\ UNCHANGED <<tgt_exists, tgt_schema, tgt_rows, lake_calls, notLakeVars>>

\* handle_pubsub: archive, staging cleanup and the event that is published
Respond(p) ==
  /\ inv[p].pc \in {"returned", "raised"}
  /\ \E cleanup_raises \in BOOLEAN :
       inv' = [inv EXCEPT
                 ![p].pc = "idle",
                 ![p].event = IF inv[p].pc = "returned" /\ ~cleanup_raises
                                THEN "LOADER_BIGQUERY_COMPLETE"
                                ELSE "LOADER_BIGQUERY_FAILED"]
  /\ UNCHANGED <<tgt_exists, tgt_schema, tgt_rows, temps, lake_calls, notLakeVars>>

LakeStep(p) ==
  \/ TableExists(p)
  \/ EvolveSchema(p)
  \/ AlterTable(p)
  \/ CreateTemp(p)
  \/ CreateTable(p)
  \/ BuildCastSelect(p)
  \/ DeleteAll(p)
  \/ DeleteMatching(p)
  \/ Insert(p)
  \/ DropTemp(p)
  \/ Respond(p)

\* one handler at a time: requests are handled one after the other
InitLake == LakeIdle /\ CleanIdle /\ LoadIdle /\ AgentIdle /\ FunIdle /\ LogIdle /\ RerunIdle

NextLake == LakeStart(1, MaxLakeCalls) \/ LakeStep(1) \/ JobFails(1)

SpecLake == InitLake /\ [][NextLake]_vars

\* two handlers, one request each, on a target that is absent or was
\* created from the "base" file
BaseTarget ==
  Target(TRUE, ParquetFiles["base"].schema, TaggedRows(ParquetFiles["base"].rows, 0))

InitLakeRace ==
  /\ \E T \in {Target(FALSE, <<>>, {}), BaseTarget} :
       /\ tgt_exists = T.exists
       /\ tgt_schema = T.schema
       /\ tgt_rows = T.rows
  /\ temps = {}
  /\ lake_calls = 0
  /\ inv = [p \in Procs |-> IdleInvocation]
  /\ CleanIdle
  /\ LoadIdle
  /\ AgentIdle
  /\ FunIdle
  /\ LogIdle /\ RerunIdle

LakeRaceStart(p) == inv[p].load_id = 0 /\ LakeStart(p, Cardinality(Procs))

NextLakeRace == \E p \in Procs : LakeRaceStart(p) \/ LakeStep(p)

SpecLakeRace == InitLakeRace /\ [][NextLakeRace]_vars

\* ------------------------------------------------------------------------
\* Properties of the lakehouse loader
\* ------------------------------------------------------------------------

\* C8 (SpecLake): every step of every load keeps each column the target has,
\* with its type; a column appears in the target only if the Parquet file of
\* a load in progress has it and the target lacked it.
C8_SchemaOnlyWidens ==
  [][ /\ \A i \in DOMAIN tgt_schema :
           \E j \in DOMAIN tgt_schema' : tgt_schema'[j] = tgt_schema[i]
      /\ \A j \in DOMAIN tgt_schema' :
           (\A i \in DOMAIN tgt_schema : tgt_schema[i] /= tgt_schema'[j]) =>
             /\ NameLower(tgt_schema'[j].name) \notin existing_names(tgt_schema)
             /\ \E p \in Procs :
                  /\ inv[p].pc /= "idle"
                  /\ \E k \in DOMAIN ParquetOf(p).schema :
                       /\ NameLower(ParquetOf(p).schema[k].name)
                            = NameLower(tgt_schema'[j].name)
                       /\ to_sql_type(ParquetOf(p).schema[k].field_type)
                            = to_sql_type(tgt_schema'[j].field_type)
    ]_vars

\* the third load in a row returned after it widened an existing target
C8_Witness ==
  /\ lake_calls = MaxLakeCalls
  /\ inv[1].pc = "returned"
  /\ inv[1].path \in {"load", "upsert"}
  /\ inv[1].prior_schema /= <<>>
  /\ Len(tgt_schema) > Len(inv[1].prior_schema)

KeyTuple(row, upsert_keys) ==
  [i \in DOMAIN upsert_keys |-> row[NameLower(upsert_keys[i])]]

\* a source row as the target schema holds it: a column of the same type as
\* is, a column of another type cast, a column the source lacks NULL
CastToTarget(source_row, source_schema, schema) ==
  [c \in LakeColumns |->
     IF c \notin existing_names(schema) THEN Null
     ELSE IF c \notin existing_names(source_schema) THEN Null
     ELSE IF FieldByName(source_schema, c).field_type = FieldByName(schema, c).field_type
       THEN source_row[c]
     ELSE SAFE_CAST(source_row[c], to_sql_type(FieldByName(schema, c).field_type))]

UpsertReturned(p) == inv[p].pc = "returned" /\ inv[p].path = "upsert"

\* the pairs of an earlier row and a source row with equal key tuples
EqualKeyPairs(p) ==
  {pair \in inv[p].prior_rows \X ParquetOf(p).rows :
     KeyTuple(pair[1].data, inv[p].request.upsert_keys)
       = KeyTuple(pair[2], inv[p].request.upsert_keys)}

\* the pairs whose key columns are all non-NULL as well
SqlEqualKeyPairs(p) ==
  {pair \in EqualKeyPairs(p) :
     \A i \in DOMAIN inv[p].request.upsert_keys :
       KeyTuple(pair[2], inv[p].request.upsert_keys)[i] /= Null}

\* the upsert removed every earlier row that is matched to a source row,
\* inserted every source row and kept every unmatched earlier row
UpsertOutcome(p, matched) ==
  /\ \A t \in inv[p].prior_rows :
       (\E s \in ParquetOf(p).rows : <<t, s>> \in matched) => t \notin tgt_rows
  /\ \A s \in ParquetOf(p).rows :
       [load |-> inv[p].load_id,
        data |-> CastToTarget(s, ParquetOf(p).schema, tgt_schema)] \in tgt_rows
  /\ \A t \in inv[p].prior_rows :
       (~\E s \in ParquetOf(p).rows : <<t, s>> \in matched) => t \in tgt_rows

\* C9 as stated (SpecLake): after a successful upsert_data the target holds no
\* earlier row whose key tuple equals that of a source row, holds every
\* source row cast to the target schema, and holds every other earlier row
\* unchanged.
C9_UpsertReplacesEqualKeys ==
  UpsertReturned(1) => UpsertOutcome(1, EqualKeyPairs(1))

\* C9 (SpecLake), with equality read as the SQL comparison: the same three
\* facts, where an earlier row matches a source row when their key columns
\* are all non-NULL and equal.
C9_UpsertReplacesSqlEqualKeys ==
  UpsertReturned(1) => UpsertOutcome(1, SqlEqualKeyPairs(1))

\* an upsert on two keys returned: it replaced an earlier row, kept another
\* earlier row, and cast a source column
C9_Witness ==
  /\ UpsertReturned(1)
  /\ Len(inv[1].request.upsert_keys) = 2
  /\ \E t \in inv[1].prior_rows : t \notin tgt_rows
  /\ \E t \in inv[1].prior_rows : t \in tgt_rows
  /\ \E i \in DOMAIN inv[1].select_cols : inv[1].select_cols[i].expr = "NULL"

\* both invocations load into the existing target a file with a column the
\* target lacked when they started
SharedNewColumn(p, q) ==
  /\ p /= q
  /\ inv[p].path \in {"load", "upsert"}
  /\ inv[q].path \in {"load", "upsert"}
  /\ \E i \in DOMAIN ParquetOf(p).schema, j \in DOMAIN ParquetOf(q).schema :
       /\ NameLower(ParquetOf(p).schema[i].name) = NameLower(ParquetOf(q).schema[j].name)
       /\ NameLower(ParquetOf(p).schema[i].name) \notin existing_names(inv[p].prior_schema)
       /\ NameLower(ParquetOf(p).schema[i].name) \notin existing_names(inv[q].prior_schema)

\* C10 (SpecLakeRace): of two overlapping loads of files that share a column
\* the target lacks, neither fails at its ALTER TABLE ADD COLUMN because the
\* column is there already.
C10_ConcurrentAddColumnBothSucceed ==
  \A p, q \in Procs :
    SharedNewColumn(p, q) => inv[p].error /= "duplicate_column"

\* ------------------------------------------------------------------------
\* The pipeline orchestrator (services/data-cleaning-agent/main.py).
\* The tools are called in the fixed order of handle_gcs_event; whether a
\* call succeeds is an input of the step.  A file and a table are modelled
\* by the inbox object whose data they hold.
\* ------------------------------------------------------------------------

\* handle_gcs_event: the skip check on the object name
skip_object(object_name) == object_name \in {"orders/", ".keep"}

\* _file_hash: SHA-256 of the object's gs:// URI
file_hash(object_name) == <<"sha256", "gs://inbox", object_name>>

AgentEvent(type, object_name, error_code, error_stage) ==
  [type |-> type, file_hash |-> file_hash(object_name),
   error_code |-> error_code, error_stage |-> error_stage]

\* a variant that goes on after load_file returned an error
load_stage_exception_ignoring_error(status) ==
  CASE status = "raises" -> "IOException"
    [] OTHER -> ""

\* the exception the load step ends with: load_file raised, or it returned
\* an error dict and handle_gcs_event raises RuntimeError
load_stage_exception(status) ==
  CASE status = "raises" -> "IOException"
    [] status = "error" -> "RuntimeError"
    [] OTHER -> ""

FileOf(i) == file_name_of(ag[i].object)
TargetOf(i) == derive_table_name(ag[i].object)
SessionTableOf(i) == generate_table_name(FileOf(i))

\* the number of data rows of an uploaded object
RowsIn(object_name) ==
  CASE object_name = "orders/data.csv" -> 3
    [] object_name = "returns/data.csv" -> 2
    [] OTHER -> 1

\* clean_table: an error dict when the table is not in the session, else
\* the result dict, whose after_rows is the row count of the table after the
\* steps; no step deletes or adds a row
clean_table_result(table) ==
  IF table = NoObject
    THEN [keys |-> {"error"}, after_rows |-> NoRows]
    ELSE [keys |-> {"status", "table_name", "before_rows", "after_rows",
                    "operations", "total_operations"},
          after_rows |-> RowsIn(table)]

\* clean_result.get("after_rows", raw_rows): the read-back by the key that
\* clean_table emits
read_back_after_rows(clean_result, raw_rows) ==
  IF "after_rows" \in clean_result.keys THEN clean_result.after_rows ELSE raw_rows

\* clean_result.get("after", {}).get("rows", raw_rows): the dict has no key
\* "after", the first get gives {}, the second its default
read_back(clean_result, raw_rows) ==
  IF "after" \in clean_result.keys THEN clean_result.after_rows ELSE raw_rows

\* a stage failed: the first failure is recorded, control goes to except
AgentFail(i, stage, exc) ==
  [ag EXCEPT ![i].pc = "except",
             ![i].failed_stage = IF @ = "" THEN stage ELSE @,
             ![i].failed_exc = IF ag[i].failed_stage = "" THEN exc ELSE @,
             ![i].exc = exc]

\* the state after a tool call: the next stage, or the except block
AgentAfter(i, stage, exc, next) ==
  IF exc = "" THEN [ag EXCEPT ![i].pc = next] ELSE AgentFail(i, stage, exc)

\* handle_gcs_event is called with an object.finalized event
AgentBegin(i) ==
  /\ ag[i].pc = "idle"
  /\ \E o \in ObjectNames :
       ag' = [ag EXCEPT ![i] =
                [IdleAgent EXCEPT !.object = o,
                                  !.pc = IF skip_object(o) THEN "done" ELSE "download",
                                  !.outcome = IF skip_object(o) THEN "skipped" ELSE ""]]
  /\ UNCHANGED <<work_dir, session_tables, staged, published, notAgentVars>>

\* blob.download_to_filename(local_path)
AgentDownload(i) ==
  /\ ag[i].pc = "download"
  /\ \E raises \in BOOLEAN :
       /\ work_dir' = IF raises THEN work_dir
                      ELSE [work_dir EXCEPT ![local_path(FileOf(i))] = ag[i].object]
       /\ ag' = AgentAfter(i, "download", IF raises THEN "NotFound" ELSE "", "load")
  /\ UNCHANGED <<session_tables, staged, published, notAgentVars>>

\* load_file(local_path, ctx): an error dict when the file is not there
AgentLoad(i) ==
  /\ ag[i].pc = "load"
  /\ \E status \in IF work_dir[local_path(FileOf(i))] = NoObject
                     THEN {"error"} ELSE {"success", "error", "raises"} :
       /\ session_tables' =
            IF status = "success"
              THEN [session_tables EXCEPT ![SessionTableOf(i)] =
                                            work_dir[local_path(FileOf(i))]]
              ELSE session_tables
       /\ ag' = [AgentAfter(i, "load", load_stage_exception(status), "quality")
                  EXCEPT ![i].failed_stage = IF status = "success" THEN @ ELSE "load",
                         ![i].failed_exc = CASE status = "raises" -> "IOException"
                                             [] status = "error" -> "RuntimeError"
                                             [] OTHER -> @,
                         ![i].raw_rows =
                           IF status = "success"
                             THEN RowsIn(work_dir[local_path(FileOf(i))]) ELSE @]
  /\ UNCHANGED <<work_dir, staged, published, notAgentVars>>

\* quality_report(table_name, ctx) and clean_table(table_name, ctx): each
\* returns an error dict, which is not looked at, when the table is missing
AgentScanClean(i) ==
  /\ ag[i].pc \in {"quality", "clean"}
  /\ \E raises \in IF session_tables[SessionTableOf(i)] = NoObject
                     THEN {FALSE} ELSE BOOLEAN :
       \E clean_result \in {clean_table_result(session_tables[SessionTableOf(i)])} :
         ag' = [AgentAfter(i, ag[i].pc, IF raises THEN "Error" ELSE "",
                           IF ag[i].pc = "quality" THEN "clean" ELSE "export_parquet")
                  EXCEPT ![i].after_rows =
                           IF ag[i].pc = "clean" /\ ~raises
                             THEN clean_result.after_rows ELSE @,
                         ![i].cleaned_rows =
                           IF ag[i].pc = "clean" /\ ~raises
                             THEN read_back(clean_result, ag[i].raw_rows) ELSE @]
  /\ UNCHANGED <<work_dir, session_tables, staged, published, notAgentVars>>

ExportPath(i) ==
  CASE ag[i].pc = "export_parquet" -> parquet_local(TargetOf(i))
    [] ag[i].pc = "export_quality_report" -> quality_report_local(TargetOf(i))
    [] OTHER -> cleaning_report_local(TargetOf(i))

\* export_parquet, export_quality_report, export_cleaning_report: each
\* writes its file from the session table, or returns an error dict, which
\* is not looked at, when the table is missing
AgentExport(i) ==
  /\ ag[i].pc \in {"export_parquet", "export_quality_report", "export_cleaning_report"}
  /\ \E raises \in IF session_tables[SessionTableOf(i)] = NoObject
                     THEN {FALSE} ELSE BOOLEAN :
       /\ work_dir' =
            IF raises \/ session_tables[SessionTableOf(i)] = NoObject THEN work_dir
            ELSE [work_dir EXCEPT ![ExportPath(i)] = session_tables[SessionTableOf(i)]]
       /\ ag' = AgentAfter(i, ag[i].pc, IF raises THEN "Error" ELSE "",
                           CASE ag[i].pc = "export_parquet" -> "export_quality_report"
                             [] ag[i].pc = "export_quality_report" -> "export_cleaning_report"
                             [] OTHER -> "upload")
  /\ UNCHANGED <<session_tables, staged, published, notAgentVars>>

\* _upload_to_gcs of the Parquet file and the two reports
AgentUpload(i) ==
  /\ ag[i].pc = "upload"
  /\ \E raises \in BOOLEAN :
       \E exc \in {IF \E p \in {parquet_local(TargetOf(i)), quality_report_local(TargetOf(i)),
                               cleaning_report_local(TargetOf(i))} : work_dir[p] = NoObject
                     THEN "FileNotFoundError"
                     ELSE IF raises THEN "GoogleCloudError" ELSE ""} :
         /\ staged' = IF exc /= "" THEN staged
                      ELSE [staged EXCEPT ![<<"parquet", TargetOf(i), FileOf(i)>>] =
                                            work_dir[parquet_local(TargetOf(i))]]
         /\ ag' = AgentAfter(i, "upload", exc, "publish_load_request")
  /\ UNCHANGED <<work_dir, session_tables, published, notAgentVars>>

\* _publish(_load_topic_path, LOAD_REQUEST), then
\* _publish(_event_topic_path, AGENT_CLEANING_COMPLETE)
AgentPublish(i) ==
  /\ ag[i].pc \in {"publish_load_request", "publish_complete"}
  /\ \E raises \in BOOLEAN :
       /\ published' =
            IF raises THEN published
            ELSE published \cup
                   {AgentEvent(IF ag[i].pc = "publish_load_request"
                                 THEN "LOAD_REQUEST" ELSE "AGENT_CLEANING_COMPLETE",
                               ag[i].object, "", "")}
       /\ ag' = [AgentAfter(i, "publish", IF raises THEN "PublishError" ELSE "",
                            IF ag[i].pc = "publish_load_request"
                              THEN "publish_complete" ELSE "finally")
                  EXCEPT ![i].load_request_sent =
                           @ \/ (ag[i].pc = "publish_load_request" /\ ~raises),
                         ![i].row_count =
                           IF ag[i].pc = "publish_load_request" /\ ~raises
                             THEN ag[i].cleaned_rows ELSE @,
                         ![i].row_count_cleaned =
                           IF ag[i].pc = "publish_complete" /\ ~raises
                             THEN ag[i].cleaned_rows ELSE @]
  /\ UNCHANGED <<work_dir, session_tables, staged, notAgentVars>>

\* except Exception: publish AGENT_CLEANING_FAILED, then raise; when the
\* publish raises, its exception is the one that propagates
AgentExcept(i) ==
  /\ ag[i].pc = "except"
  /\ \E raises \in BOOLEAN :
       /\ published' =
            IF raises THEN published
            ELSE published \cup
                   {AgentEvent("AGENT_CLEANING_FAILED", ag[i].object, ag[i].exc,
                               "agent_pipeline")}
       /\ ag' = [ag EXCEPT ![i].pc = "finally",
                           ![i].failure_event = IF raises THEN "publish_failed"
                                                          ELSE "published",
                           ![i].exc = IF raises THEN "PublishError" ELSE @]
  /\ UNCHANGED <<work_dir, session_tables, staged, notAgentVars>>

\* finally: every file in WORK_DIR is removed; then return or propagate
AgentFinally(i) ==
  /\ ag[i].pc = "finally"
  /\ work_dir' = [p \in WorkPaths |-> NoObject]
  /\ ag' = [ag EXCEPT ![i].pc = "done",
                      ![i].outcome = IF ag[i].exc = "" THEN "returned" ELSE "raised"]
  /\ UNCHANGED <<session_tables, staged, published, notAgentVars>>

AgentStep(i) ==
  \/ AgentBegin(i)
  \/ AgentDownload(i)
  \/ AgentLoad(i)
  \/ AgentScanClean(i)
  \/ AgentExport(i)
  \/ AgentUpload(i)
  \/ AgentPublish(i)
  \/ AgentExcept(i)
  \/ AgentFinally(i)

InitAgent == AgentIdle /\ CleanIdle /\ LoadIdle /\ LakeIdle /\ FunIdle /\ LogIdle /\ RerunIdle

NextAgent == \E i \in AgentInvs : AgentStep(i)

SpecAgent == InitAgent /\ [][NextAgent]_vars

\* ------------------------------------------------------------------------
\* Properties of the pipeline orchestrator (checked under SpecAgent)
\* ------------------------------------------------------------------------

AgentFailed(i) == ag[i].failed_stage /= "" /\ ag[i].pc \in {"finally", "done"}

FailureEventOf(i) ==
  AgentEvent("AGENT_CLEANING_FAILED", ag[i].object, ag[i].failed_exc, "agent_pipeline")

SqlPieces ==
  {" ", "\n", ";", "_x", "DELETE", "delete", "Drop", "DROP", "TABLE", "table",
   "DATABASE", "TRUNCATE", "SELECT"}

SqlTexts == UNION {[1..n -> SqlPieces] : n \in 0..MaxSqlPieces}

\* \s
IsSpace(piece) == piece \in {" ", "\n"}

\* \w: the piece consists of word characters
IsWord(piece) == ~IsSpace(piece) /\ piece /= ";"

\* re.IGNORECASE: the piece in upper case
UpperPiece(piece) ==
  CASE piece = "delete" -> "DELETE"
    [] piece = "Drop" -> "DROP"
    [] piece = "table" -> "TABLE"
    [] piece = "_x" -> "_X"
    [] OTHER -> piece

\* the index of the first piece at or after k that is not whitespace
RECURSIVE SkipSpace(_, _)
SkipSpace(sql, k) ==
  IF k <= Len(sql) /\ IsSpace(sql[k]) THEN SkipSpace(sql, k + 1) ELSE k

\* \b after the word piece at k: the text ends or a non-word piece follows
WordEndsAt(sql, k) == k = Len(sql) \/ ~IsWord(sql[k + 1])

\* the pattern without re.IGNORECASE
DESTRUCTIVE_PATTERN_case_sensitive(sql) ==
  \E k \in {SkipSpace(sql, 1)} :
    /\ k <= Len(sql)
    /\ \/ sql[k] \in {"DELETE", "TRUNCATE"} /\ WordEndsAt(sql, k)
       \/ /\ sql[k] = "DROP"
          /\ k < Len(sql)
          /\ IsSpace(sql[k + 1])
          /\ \E j \in {SkipSpace(sql, k + 1)} :
               /\ j <= Len(sql)
               /\ sql[j] \in {"TABLE", "DATABASE"}
               /\ WordEndsAt(sql, j)

\* _DESTRUCTIVE_PATTERN.search(sql):
\* ^\s*(DELETE\b|DROP\s+TABLE\b|TRUNCATE\b|DROP\s+DATABASE\b), IGNORECASE
DESTRUCTIVE_PATTERN(sql) ==
  \E k \in {SkipSpace(sql, 1)} :
    /\ k <= Len(sql)
    /\ \/ UpperPiece(sql[k]) \in {"DELETE", "TRUNCATE"} /\ WordEndsAt(sql, k)
       \/ /\ UpperPiece(sql[k]) = "DROP"
          /\ k < Len(sql)
          /\ IsSpace(sql[k + 1])
          /\ \E j \in {SkipSpace(sql, k + 1)} :
               /\ j <= Len(sql)
               /\ UpperPiece(sql[j]) \in {"TABLE", "DATABASE"}
               /\ WordEndsAt(sql, j)

reject_destructive(sql) ==
  IF DESTRUCTIVE_PATTERN(sql)
    THEN [error |-> "DELETE, DROP TABLE, and TRUNCATE are not allowed.",
          rejected_sql |-> sql]
    ELSE None

\* DuckDBSession.execute_safe: raises ValueError, or hands the SQL to the
\* connection; sent is what the connection received
execute_safe(sql) ==
  IF reject_destructive(sql) /= None
    THEN [raised |-> "ValueError", sent |-> <<>>]
    ELSE [raised |-> "", sent |-> <<sql>>]

Call(fn, input, output) == [fn |-> fn, input |-> input, output |-> output]

\* one call is made from the idle state
CallRejectDestructive ==
  /\ fcall = NoCall
  /\ \E sql \in SqlTexts : fcall' = Call("reject_destructive", sql, reject_destructive(sql))

CallExecuteSafe ==
  /\ fcall = NoCall
  /\ \E sql \in SqlTexts : fcall' = Call("execute_safe", sql, execute_safe(sql))

\* column_normalizer.py ---------------------------------------------------

\* column names as a file spells them
ColumnSpellings == {"a", "A", "a_1", "A 1", "b", ""}

ColumnLists == UNION {[1..n -> ColumnSpellings] : n \in 0..MaxColumns}

\* normalize_column_name on the spellings in use: lower case, runs of
\* special characters to one underscore, "unnamed" for an empty result
normalize_column_name(name) ==
  CASE name = "A" -> "a"
    [] name = "A 1" -> "a_1"
    [] name = "" -> "unnamed"
    [] OTHER -> name

\* seen[name] for a name that is in seen, after seen[name] = count
SeenWith(seen, name, count) ==
  [n \in DOMAIN seen \cup {name} |-> IF n = name THEN count ELSE seen[n]]

\* the loop of make_unique from position k on
RECURSIVE make_unique_from(_, _, _, _)
make_unique_from(names, k, seen, unique) ==
  IF k > Len(names) THEN unique
  ELSE IF names[k] \in DOMAIN seen
    THEN make_unique_from(names, k + 1, SeenWith(seen, names[k], seen[names[k]] + 1),
                          Append(unique, names[k] \o "_" \o ToString(seen[names[k]] + 1)))
    ELSE make_unique_from(names, k + 1, SeenWith(seen, names[k], 0),
                          Append(unique, names[k]))

make_unique(names) == make_unique_from(names, 1, <<>>, <<>>)

normalize_column_names(columns) ==
  make_unique([k \in 1..Len(columns) |-> normalize_column_name(columns[k])])

CallNormalizeColumnNames ==
  /\ fcall = NoCall
  /\ \E columns \in ColumnLists :
       fcall' = Call("normalize_column_names", columns, normalize_column_names(columns))

\* report.py: _determine_overall_status ---------------------------------

SeverityCounts ==
  [critical : 0..MaxSeverityCount, warning : 0..MaxSeverityCount,
   info : 0..MaxSeverityCount]

\* the two tests in the opposite order
determine_overall_status_warning_first(severity_counts) ==
  IF severity_counts.warning > 0
    THEN [status |-> "warn",
          reason |-> Str(ToString(severity_counts.warning) \o " warning finding(s)")]
  ELSE IF severity_counts.critical > 0
    THEN [status |-> "fail",
          reason |-> Str(ToString(severity_counts.critical) \o " critical finding(s)")]
  ELSE [status |-> "pass", reason |-> None]

\* _determine_overall_status(severity_counts): (status, reason)
determine_overall_status(severity_counts) ==
  IF severity_counts.critical > 0
    THEN [status |-> "fail",
          reason |-> Str(ToString(severity_counts.critical) \o " critical finding(s)")]
  ELSE IF severity_counts.warning > 0
    THEN [status |-> "warn",
          reason |-> Str(ToString(severity_counts.warning) \o " warning finding(s)")]
  ELSE [status |-> "pass", reason |-> None]

CallDetermineOverallStatus ==
  /\ fcall = NoCall
  /\ \E severity_counts \in SeverityCounts :
       fcall' = Call("determine_overall_status", severity_counts,
                     determine_overall_status(severity_counts))

\* handle_pubsub up to parse_load_request: a message that is refused takes
\* the handler to its except block; one that is accepted goes on to the
\* existence check (LakeStart)
ParseMessage ==
  /\ fcall = NoCall
  /\ \E raw \in Messages :
       \E done \in {parse_load_request(raw)} :
         /\ fcall' = Call("parse_load_request", raw, done)
         /\ inv' = IF done.raised = "" THEN inv
                   ELSE [inv EXCEPT ![1] = [IdleInvocation EXCEPT !.pc = "raised",
                                                                  !.error = done.raised]]
  /\ UNCHANGED <<tgt_exists, tgt_schema, tgt_rows, temps, lake_calls>>
  /\ UNCHANGED <<cleanVars, loadVars, agentVars, logVars, rerunVars>>

InitFun == FunIdle /\ CleanIdle /\ LoadIdle /\ LakeIdle /\ AgentIdle /\ LogIdle /\ RerunIdle

NextFun ==
  \/ CallRejectDestructive /\ UNCHANGED notFunVars
  \/ CallExecuteSafe /\ UNCHANGED notFunVars
  \/ ParseMessage
  \/ Respond(1)
  \/ CallNormalizeColumnNames /\ UNCHANGED notFunVars
  \/ CallDetermineOverallStatus /\ UNCHANGED notFunVars

SpecFun == InitFun /\ [][NextFun]_vars

\* ------------------------------------------------------------------------
\* Properties of the pure functions (checked under SpecFun)
\* ------------------------------------------------------------------------

\* the keyword that stands alone at k (no word piece touches it), in upper
\* case; "" when the piece at k is part of a longer word
KeywordAt(sql, k) ==
  IF (k = Len(sql) \/ ~IsWord(sql[k + 1])) /\ (k = 1 \/ ~IsWord(sql[k - 1]))
    THEN UpperPiece(sql[k]) ELSE ""

\* the text begins, ignoring leading whitespace and letter case, with the
\* keyword DELETE or TRUNCATE, or with the keywords DROP TABLE or DROP
\* DATABASE separated by whitespace
BeginsDestructive(sql) ==
  \E k \in 1..Len(sql) :
    /\ \A h \in 1..(k - 1) : IsSpace(sql[h])
    /\ \/ KeywordAt(sql, k) \in {"DELETE", "TRUNCATE"}
       \/ /\ KeywordAt(sql, k) = "DROP"
          /\ \E j \in (k + 2)..Len(sql) :
               /\ \A h \in (k + 1)..(j - 1) : IsSpace(sql[h])
               /\ KeywordAt(sql, j) \in {"TABLE", "DATABASE"}

Spellings(mode) ==
  CASE mode = "APPEND" -> {"append", "APPEND"}
    [] mode = "OVERWRITE" -> {"Overwrite", "OVERWRITE"}
    [] mode = "UPSERT" -> {"upsert", "UPSERT"}

\* the write mode a message asks for: APPEND when write_mode is absent
RequestedMode(raw) ==
  IF raw.write_mode \in {Absent, None} THEN "APPEND"
  ELSE IF "str" \notin DOMAIN raw.write_mode THEN ""
  ELSE IF \E mode \in {"APPEND", "OVERWRITE", "UPSERT"} : raw.write_mode.str \in Spellings(mode)
    THEN CHOOSE mode \in {"APPEND", "OVERWRITE", "UPSERT"} : raw.write_mode.str \in Spellings(mode)
  ELSE ""

\* the required fields are present and non-empty, the write mode is one of
\* the three, and an UPSERT names at least one key
Acceptable(raw) ==
  /\ \A f \in REQUIRED_FIELDS : raw[f] \notin {Absent, None, Str("")}
  /\ RequestedMode(raw) /= ""
  /\ RequestedMode(raw) = "UPSERT" =>
       "list" \in DOMAIN raw.upsert_keys /\ raw.upsert_keys.list /= <<>>

C13_Accepted ==
  /\ fcall.fn = "parse_load_request"
  /\ fcall.input.write_mode = Str("Overwrite")
  /\ fcall.output.raised = ""

\* C14: normalize_column_names returns as many names as it was given, and
\* no two of them are equal.
C14_NormalizedNamesDistinct ==
  fcall.fn = "normalize_column_names" =>
    /\ Len(fcall.output) = Len(fcall.input)
    /\ \A j, k \in 1..Len(fcall.output) : j /= k => fcall.output[j] /= fcall.output[k]

\* the names a, a, a_1 came back as a, a_1, a_1
C14_SuffixCollides ==
  /\ fcall.fn = "normalize_column_names"
  /\ fcall.input = <<"a", "a", "a_1">>
  /\ fcall.output = <<"a", "a_1", "a_1">>

\* C15: the overall status of a quality report is fail when there is a
\* critical finding, warn when there is none but there is a warning, and pass
\* when there is neither, whatever the number of info findings.
C15_OverallStatusBySeverity ==
  fcall.fn = "determine_overall_status" =>
    /\ fcall.input.critical > 0 => fcall.output.status = "fail"
    /\ fcall.input.critical = 0 /\ fcall.input.warning > 0 => fcall.output.status = "warn"
    /\ fcall.input.critical = 0 /\ fcall.input.warning = 0 => fcall.output.status = "pass"

\* a report with both critical and warning findings was given fail
C15_Witness ==
  /\ fcall.fn = "determine_overall_status"
  /\ fcall.input.critical > 0
  /\ fcall.input.warning > 0
  /\ fcall.input.info > 0
  /\ fcall.output.status = "fail"

\* ------------------------------------------------------------------------
\* The cleaning report (checked under SpecClean)
\* ------------------------------------------------------------------------

\* a report that never says cleaned
cleaning_overall_status_never_cleaned(cleaning_result) == "no_action_needed"

\* build_cleaning_report: overall_status from the operations of the result
cleaning_overall_status(cleaning_result) ==
  IF cleaning_result.operations /= <<>> THEN "cleaned" ELSE "no_action_needed"

\* the steps of clean_table that act on every VARCHAR column, findings or not
FindingIndependentSteps ==
  {"unknown_char_replacement", "whitespace_trimming", "empty_string_normalization",
   "mixed_case_normalization"}

OperationsOf(cleaning_result) ==
  {cleaning_result.operations[i] : i \in DOMAIN cleaning_result.operations}

\* C16 as stated: clean_table on a table without stored findings succeeds and
\* its cleaning report has overall_status no_action_needed.
C16_NoFindingsNoActionNeeded ==
  (cpc = CleanReturned /\ findings = {}) =>
    /\ result.status = "success"
    /\ cleaning_overall_status(result) = "no_action_needed"

\* C16, amended: clean_table on a table without stored findings succeeds; the
\* only operations it applies are those of the finding-independent steps, and
\* the cleaning report has overall_status no_action_needed exactly when none
\* of them was applied, and cleaned otherwise.
C16_NoFindingsStatusFollowsOperations ==
  (cpc = CleanReturned /\ findings = {}) =>
    /\ result.status = "success"
    /\ OperationsOf(result) \subseteq FindingIndependentSteps
    /\ cleaning_overall_status(result) = "no_action_needed" <=> OperationsOf(result) = {}
    /\ cleaning_overall_status(result) = "cleaned" <=> OperationsOf(result) /= {}

\* a run without findings that replaced empty strings reported cleaned
C16_Witness ==
  /\ cpc = CleanReturned
  /\ findings = {}
  /\ "empty_string_normalization" \in OperationsOf(result)
  /\ cleaning_overall_status(result) = "cleaned"

\* a run without findings on a table that needs nothing reported no action
C16_NoAction ==
  /\ cpc = CleanReturned
  /\ findings = {}
  /\ Len(tbl_rows) > 0
  /\ cleaning_overall_status(result) = "no_action_needed"

\* ------------------------------------------------------------------------
\* The session after a failed recovery load (checked under SpecLoad)
\* ------------------------------------------------------------------------

\* DuckDBSession.table_exists: "SELECT 1 FROM table LIMIT 0" succeeds
session_table_exists(table_name) == db_tables[table_name] /= NoTable

\* quality_report, clean_table, export_parquet and the report exports return
\* the "not found" error only for a table the session does not have
tool_returns_not_found(table_name) == ~session_table_exists(table_name)

\* C17: after a load_file call that failed on a row-count shortfall in the
\* recovery CSV load, the table is not in the session: table_exists is false
\* and the tools called on that table name return an error.
C17_ShortfallDiscardsTable ==
  load_result.error = "atomic_load_failed" =>
    /\ ~session_table_exists(load_call.table)
    /\ tool_returns_not_found(load_call.table)

\* a recovery load lost a row, failed, and left its partial table behind
C17_PartialTableLeft ==
  /\ load_result.status = "error"
  /\ load_result.error = "atomic_load_failed"
  /\ load_result.source_rows > load_result.total_rows + load_result.empty_rows_removed
  /\ db_tables[load_call.table] = load_result.total_rows
  /\ registry[load_call.table] = NoTable

\* ------------------------------------------------------------------------
\* Atomicity and redelivery of loads (checked under SpecLake)
\* ------------------------------------------------------------------------

\* load_data or upsert_data of invocation p was called for an OVERWRITE or
\* UPSERT request and has raised
ReplacingLoadFailed(p) ==
  /\ inv[p].pc = "raised"
  /\ inv[p].path \in {"load", "upsert"}
  /\ inv[p].request.write_mode \in {"OVERWRITE", "UPSERT"}

\* C18: when an OVERWRITE or UPSERT load fails at any step after it started,
\* the target's rows are the same as before the call.
C18_FailedReplacingLoadKeepsRows ==
  \A p \in Procs : ReplacingLoadFailed(p) => tgt_rows = inv[p].prior_rows

\* an OVERWRITE deleted the target's rows, its INSERT failed, and the target
\* is left empty
C18_RowsDeletedNotInserted ==
  /\ ReplacingLoadFailed(1)
  /\ inv[1].request.write_mode = "OVERWRITE"
  /\ inv[1].error = "job_failed"
  /\ inv[1].prior_rows /= {}
  /\ tgt_rows = {}

\* C19: when an APPEND request whose first handling failed after its load
\* returned is delivered again, the target does not hold the rows of both
\* handlings: it ends with one copy of the file's rows.
C19_RedeliveryInsertsOnce ==
  \A p \in Procs :
    inv[p].redelivery_of /= 0 =>
      ~ /\ \E r \in tgt_rows : r.load = inv[p].redelivery_of
        /\ \E r \in tgt_rows : r.load = inv[p].load_id

\* the request was handled, the handler failed after the INSERT, the request
\* was delivered again, and the target holds the file's rows twice
C19_RowsInsertedTwice ==
  /\ inv[1].redelivery_of /= 0
  /\ inv[1].path = "load"
  /\ inv[1].event = "LOADER_BIGQUERY_COMPLETE"
  /\ \E r1, r2 \in tgt_rows :
       /\ r1.load = inv[1].redelivery_of
       /\ r2.load = inv[1].load_id
       /\ r1.data = r2.data

\* ------------------------------------------------------------------------
\* Isolation of invocations on one worker (checked under SpecAgent)
\* ------------------------------------------------------------------------

\* invocation i is between its load step and its last export
UsesSessionTable(i) ==
  ag[i].pc \in {"quality", "clean", "export_parquet", "export_quality_report",
                "export_cleaning_report"}

\* no other invocation is in progress
RunsAlone(i) == \A j \in AgentInvs \ {i} : ag[j].pc \in {"idle", "done"}

\* C20: two invocations on one worker share no state.  The file an
\* invocation downloaded, the session table it loaded and the Parquet file
\* it exported are there and hold its own object for as long as it uses
\* them; an invocation that starts while no other runs finds no table in the
\* session; and a staged Parquet holds the data of the object it is named
\* after.
C20_InvocationsShareNoState ==
  /\ \A i \in AgentInvs :
       /\ ag[i].pc = "load" => work_dir[local_path(FileOf(i))] = ag[i].object
       /\ UsesSessionTable(i) => session_tables[SessionTableOf(i)] = ag[i].object
       /\ ag[i].pc = "upload" /\ ag[i].exc = "" =>
            work_dir[parquet_local(TargetOf(i))] = ag[i].object
       /\ ag[i].pc = "download" /\ RunsAlone(i) =>
            \A t \in SessionTableNames : session_tables[t] = NoObject
  /\ \A o \in ObjectNames :
       ~skip_object(o) =>
         staged[<<"parquet", derive_table_name(o), file_name_of(o)>>] \in {NoObject, o}

\* overlapping invocations for orders/data.csv and returns/data.csv: the
\* Parquet staged for orders holds the data of returns, and its load request
\* was published
C20_ForeignDataStaged ==
  /\ staged[<<"parquet", "orders", "data.csv">>] = "returns/data.csv"
  /\ AgentEvent("LOAD_REQUEST", "orders/data.csv", "", "") \in published

\* one invocation's finally block removed the file another had downloaded
\* and not yet loaded
C20_WorkingFileDeleted ==
  \E i \in AgentInvs :
    /\ ag[i].pc = "load"
    /\ work_dir[local_path(FileOf(i))] = NoObject

\* invocations one after the other: the second starts with the first one's
\* table in the session
C20_TableOutlivesInvocation ==
  /\ ag[1].pc = "done"
  /\ ag[1].outcome = "returned"
  /\ ag[2].pc = "download"
  /\ session_tables[SessionTableOf(1)] = ag[1].object

\* ------------------------------------------------------------------------
\* The events of one invocation (checked under SpecAgent)
\* ------------------------------------------------------------------------

\* C21: no invocation publishes both a LOAD_REQUEST and an
\* AGENT_CLEANING_FAILED event; an invocation that published a LOAD_REQUEST
\* ends without raising.
C21_NoLoadRequestWithFailedEvent ==
  \A i \in AgentInvs :
    /\ ~(ag[i].load_request_sent /\ ag[i].failure_event = "published")
    /\ ag[i].load_request_sent /\ ag[i].pc = "done" => ag[i].outcome = "returned"

\* the LOAD_REQUEST went out, the completion publish raised, and the except
\* block published AGENT_CLEANING_FAILED for the same file
C21_BothPublished ==
  /\ ag[1].pc = "done"
  /\ ag[1].outcome = "raised"
  /\ ag[1].failed_stage = "publish"
  /\ AgentEvent("LOAD_REQUEST", ag[1].object, "", "") \in published
  /\ AgentEvent("AGENT_CLEANING_FAILED", ag[1].object, "PublishError", "agent_pipeline")
       \in published
  /\ ag[2] = IdleAgent

AgentReturned(i) == ag[i].pc = "done" /\ ag[i].outcome = "returned"

\* C30: for every invocation of handle_gcs_event that returned, the row_count
\* of its LOAD_REQUEST and the row_count_cleaned of its
\* AGENT_CLEANING_COMPLETE equal the after_rows of its cleaning result.
C30_PublishedCountsAreAfterRows ==
  \A i \in AgentInvs :
    AgentReturned(i) =>
      /\ ag[i].row_count = ag[i].after_rows
      /\ ag[i].row_count_cleaned = ag[i].after_rows

\* what the read-back gives: both published counts of an invocation that
\* returned are the total_rows of its load result
C30_PublishedCountsAreRawRows ==
  \A i \in AgentInvs :
    AgentReturned(i) =>
      /\ ag[i].row_count = ag[i].raw_rows
      /\ ag[i].row_count_cleaned = ag[i].raw_rows

\* an invocation returned after publishing a count that is not the
\* after_rows of its cleaning result
C30_OtherCountPublished ==
  /\ AgentReturned(1)
  /\ ag[1].after_rows /= NoRows
  /\ ag[1].row_count /= ag[1].after_rows
  /\ ag[1].row_count_cleaned /= ag[1].after_rows

\* an invocation returned after publishing the after_rows of its cleaning
\* result
C30_SameCountPublished ==
  /\ AgentReturned(1)
  /\ ag[1].after_rows /= NoRows
  /\ ag[1].row_count = ag[1].after_rows
  /\ ag[1].row_count_cleaned = ag[1].after_rows

\* ------------------------------------------------------------------------
\* logger/main.py: handle_pipeline_event on the file registry
\* ------------------------------------------------------------------------

STATUS_RANK ==
  [t \in {"AGENT_CLEANING_FAILED", "AGENT_CLEANING_COMPLETE", "LOADER_BIGQUERY_COMPLETE",
          "LOADER_BIGQUERY_FAILED"} |->
     CASE t = "AGENT_CLEANING_FAILED" -> 0
       [] t = "AGENT_CLEANING_COMPLETE" -> 1
       [] t = "LOADER_BIGQUERY_COMPLETE" -> 2
       [] OTHER -> 3]

\* the "type" of a message: one of the four, a type the logger does not
\* know, or none
MessageTypes == DOMAIN STATUS_RANK \cup {"TABLE_CREATED", ""}

\* STATUS_RANK.get(current_status, -1)
RankOf(status) == IF status \in DOMAIN STATUS_RANK THEN STATUS_RANK[status] ELSE -1

\* a variant that clears the status key at the start of every attempt
transaction_status_fresh(doc_status, snapshot, message_type) ==
  IF snapshot.exists
    THEN IF STATUS_RANK[message_type] > RankOf(snapshot.status) THEN message_type ELSE ""
    ELSE message_type

\* update_in_transaction, lines 123-134: the status key of doc_data after the
\* function body ran on the snapshot; doc_data is the dict of the enclosing
\* call, so a key set by an earlier attempt is still there
transaction_status(doc_status, snapshot, message_type) ==
  IF snapshot.exists
    THEN IF STATUS_RANK[message_type] > RankOf(snapshot.status) THEN message_type
         ELSE doc_status
    ELSE message_type

\* transaction.set(doc_ref, doc_data, merge=True)
set_merge(doc, doc_status) ==
  [exists |-> TRUE,
   status |-> IF doc_status = "" THEN doc.status ELSE doc_status,
   version |-> doc.version + 1]

\* handle_pipeline_event is called with a message; one without a type or
\* with an unknown type is logged and dropped
LogBegin(h) ==
  /\ lg[h].pc = "idle"
  /\ lg_calls < MaxLogEvents
  /\ \E message_type \in MessageTypes :
       lg' = [lg EXCEPT ![h] =
                IF message_type \in DOMAIN STATUS_RANK
                  THEN [IdleLogger EXCEPT !.pc = "read", !.message_type = message_type]
                  ELSE IdleLogger]
  /\ lg_calls' = lg_calls + 1
  /\ UNCHANGED <<file_doc, handled, notLogVars>>

\* one attempt of the transaction: doc_ref.get(transaction) and the body
LogRead(h) ==
  /\ lg[h].pc = "read"
  /\ lg' = [lg EXCEPT ![h].snapshot = file_doc,
                      ![h].doc_status = transaction_status(@, file_doc, lg[h].message_type),
                      ![h].pc = "commit"]
  /\ UNCHANGED <<file_doc, handled, lg_calls, notLogVars>>

\* the commit of the attempt: it succeeds when the document is as it was
\* read; otherwise the transaction is aborted and the decorated function is
\* run again
LogCommit(h) ==
  /\ lg[h].pc = "commit"
  /\ IF file_doc = lg[h].snapshot
       THEN /\ file_doc' = set_merge(file_doc, lg[h].doc_status)
            /\ handled' = handled \cup {lg[h].message_type}
            /\ lg' = [lg EXCEPT ![h].pc = "idle"]
       ELSE /\ lg' = [lg EXCEPT ![h].pc = "read", ![h].attempts = @ + 1]
            /\ UNCHANGED <<file_doc, handled>>
  /\ UNCHANGED <<lg_calls, notLogVars>>

InitLog == LogIdle /\ RerunIdle /\ CleanIdle /\ LoadIdle /\ LakeIdle /\ AgentIdle /\ FunIdle

NextLog == \E h \in LogProcs : LogBegin(h) \/ LogRead(h) \/ LogCommit(h)

SpecLog == InitLog /\ [][NextLog]_vars

\* the handled event type of highest rank
HighestHandled ==
  CHOOSE t \in handled : \A u \in handled : STATUS_RANK[u] <= STATUS_RANK[t]

\* C22: after handling any set of events for a file, in any order, with
\* duplicates and with overlapping handlers, the stored status is the handled
\* event type of highest rank.
C22_StatusIsHighestRank ==
  handled /= {} => file_doc.status = HighestHandled

\* C22, second half: the stored status never moves to a type of lower or
\* equal rank.
C22_StatusNeverMovesDown ==
  [][file_doc'.status /= file_doc.status =>
       RankOf(file_doc'.status) > RankOf(file_doc.status)]_vars

\* a handler's transaction was aborted and run again, and the registry ended
\* with a status below the highest handled type
C22_StaleStatusWritten ==
  /\ \A h \in LogProcs : lg[h].pc = "idle"
  /\ \E h \in LogProcs : lg[h].attempts > 0
  /\ handled = {"AGENT_CLEANING_COMPLETE", "LOADER_BIGQUERY_COMPLETE"}
  /\ file_doc.status = "AGENT_CLEANING_COMPLETE"

\* without a retry: the events arrived from highest to lowest rank and the
\* status stayed at the highest
C22_OutOfOrderKept ==
  /\ \A h \in LogProcs : lg[h].pc = "idle" /\ lg[h].attempts = 0
  /\ lg[1].message_type = "AGENT_CLEANING_FAILED"
  /\ Cardinality(handled) = 3
  /\ file_doc.status = HighestHandled

\* ------------------------------------------------------------------------
\* Properties of a second cleaning run (checked under SpecReclean)
\* ------------------------------------------------------------------------

\* C23: a second clean_table call on the same table with the same findings
\* succeeds and leaves rows, columns and column types as the first call
\* left them
C23_SecondRunIdempotent ==
  (rerun.calls = 1 /\ cpc \in {CleanReturned, CleanRaised}) =>
    /\ cpc = CleanReturned
    /\ result.status = "success"
    /\ CurTable = rerun.table_after_first

\* the second call raised at a column the first call removed
C23_SecondRunRaised ==
  /\ rerun.calls = 1
  /\ rerun.raised
  /\ cpc = CleanRaised
  /\ "a" \notin DOMAIN rerun.table_after_first.types
  /\ \E f \in findings : f.category = "whitespace" /\ f.column = "a"

\* the second call returned and the table is not the one the first call left
C23_SecondRunChangedTable ==
  /\ rerun.calls = 1
  /\ cpc = CleanReturned
  /\ CurTable /= rerun.table_after_first

\* the second call returned and the table is the one the first call left
C23_SecondRunSameTable ==
  /\ rerun.calls = 1
  /\ cpc = CleanReturned
  /\ CurTable = rerun.table_after_first
  /\ operations = <<>>
  /\ rerun.table_after_first.rows /= <<>>

\* ------------------------------------------------------------------------
\* Column overflow: _check_overflow_columns and _repair_overflow_columns
\* (ingestion.py).  A table is a sequence of columns, each a name and its
\* cells from the first row to the last.
\* ------------------------------------------------------------------------

\* most columns of a table handed to the overflow check
MaxOverflowColumns == 3

\* rows of such a table
OverflowTableRows == 5

Column(name, cells) == [name |-> name, cells |-> cells]

\* the cells of one column: v in the rows of `filled`, NULL in the others
CellsWith(filled, v) ==
  [i \in 1..OverflowTableRows |-> IF i \in filled THEN v ELSE Null]

ColumnShapes ==
       {CellsWith(1..OverflowTableRows, v) : v \in {"x", ""}}
  \cup {CellsWith(1..k, "x") : k \in {1, 2}}
  \cup {CellsWith({r}, v) : r \in {1, 2}, v \in {"x", " ", ""}}
  \cup {CellsWith({}, "x")}

\* _remove_empty_rows ran before the check: no row is NULL in every column
NoEmptyRow(shapes) ==
  \A i \in 1..OverflowTableRows : \E k \in DOMAIN shapes : shapes[k][i] /= Null

ColumnName(k) == "c" \o ToString(k)

\* the tables after the load, the renames and _remove_empty_rows; the last
\* ones have no row at all
OverflowTables ==
       UNION { { [k \in 1..n |-> Column(ColumnName(k), shapes[k])] :
                   shapes \in {sh \in [1..n -> ColumnShapes] : NoEmptyRow(sh)} } :
               n \in 1..MaxOverflowColumns }
  \cup { [k \in 1..n |-> Column(ColumnName(k), <<>>)] : n \in 1..MaxOverflowColumns }

\* session.get_column_names for such a table
column_names(T) == [k \in DOMAIN T |-> T[k].name]

\* session.get_row_count for such a table
row_count(T) == Len(T[1].cells)

\* common/null_count.sql: the number of rows in which the column is NULL
sql_null_count(col) == Cardinality({i \in DOMAIN col.cells : col.cells[i] = Null})

\* mutant: a column counts as sparse only above the threshold
is_sparse_strictly_above(null_count, total_rows) == 10 * null_count > 8 * total_rows

\* "null_count >= sparse_threshold", sparse_threshold = total_rows * 0.8
is_sparse(null_count, total_rows) == 10 * null_count >= 8 * total_rows

\* the for loop of _check_overflow_columns over reversed(columns), at
\* column k: the number of columns put into overflow_cols before the break
RECURSIVE OverflowFrom(_, _)
OverflowFrom(T, k) ==
  IF k = 0 THEN 0
  ELSE IF is_sparse(sql_null_count(T[k]), row_count(T))
       THEN 1 + OverflowFrom(T, k - 1)
       ELSE 0

\* _check_overflow_columns
check_overflow_columns(T) ==
  IF row_count(T) = 0 THEN <<>>
  ELSE SubSeq(column_names(T), Len(T) - OverflowFrom(T, Len(T)) + 1, Len(T))

\* one disjunct of overflow_check_expr:
\* "col" IS NOT NULL AND TRIM(CAST("col" AS VARCHAR)) != ''
overflow_check(v) == v /= Null /\ Trim(v) /= ""

\* ingestion/repair_overflow.sql: the table of the real columns and the
\* value of overflow_check_expr as is_shifted
sql_repair_overflow(T, real_columns, overflow_cols) ==
  LET shifted(i) == \E k \in DOMAIN T :
                      /\ \E j \in DOMAIN overflow_cols : overflow_cols[j] = T[k].name
                      /\ overflow_check(T[k].cells[i])
  IN SelectSeq(T, LAMBDA col : \E j \in DOMAIN real_columns : real_columns[j] = col.name)
       \o << Column("is_shifted",
                    [i \in 1..row_count(T) |-> IF shifted(i) THEN "true" ELSE "false"]) >>

\* _repair_overflow_columns
repair_overflow_columns(T, overflow_cols) ==
  LET columns == column_names(T)
      first_overflow_idx ==
        CHOOSE i \in DOMAIN columns :
          /\ columns[i] = overflow_cols[1]
          /\ \A j \in 1..(i - 1) : columns[j] /= overflow_cols[1]
      real_columns == SubSeq(columns, 1, first_overflow_idx - 1)
      rows_flagged ==
        Cardinality({i \in 1..row_count(T) :
                       \E k \in DOMAIN T :
                         /\ \E j \in DOMAIN overflow_cols : overflow_cols[j] = T[k].name
                         /\ overflow_check(T[k].cells[i])})
  IN [table |-> sql_repair_overflow(T, real_columns, overflow_cols),
      overflow_columns_repaired |-> overflow_cols,
      overflow_rows_flagged |-> rows_flagged]

\* _load_csv_standard, lines 431-435: the check and, when it finds
\* overflow columns, the repair
overflow_step(T) ==
  LET overflow == check_overflow_columns(T)
  IN IF overflow /= <<>>
     THEN repair_overflow_columns(T, overflow)
     ELSE [table |-> T, overflow_columns_repaired |-> <<>>,
           overflow_rows_flagged |-> 0]

CallOverflowStep ==
  /\ fcall = NoCall
  /\ \E T \in OverflowTables :
       fcall' = Call("overflow_step", T, overflow_step(T))
  /\ UNCHANGED notFunVars

\* ------------------------------------------------------------------------
\* Type analysis: _batch_type_analysis (quality.py).  A VARCHAR column is
\* given by how many of its rows hold each kind of value; the other rows
\* are NULL.
\* ------------------------------------------------------------------------

\* rows of a scanned table
ScanRows == 11

\* "007": text that starts with 0, is longer than one character and casts
\* to BIGINT; "12"; "1" or "0"; "yes", "true", ...; "2020-01-02"; other text
ValueKinds == {"leading_zero", "number", "bit", "bool_word", "date", "text"}

ScanColumn(lz, num, bit, word, date, text) ==
  [leading_zero |-> lz, number |-> num, bit |-> bit, bool_word |-> word,
   date |-> date, text |-> text]

\* the five FILTER counts of the wide SELECT for one column
non_null_count(col) ==
  col.leading_zero + col.number + col.bit + col.bool_word + col.date + col.text

castable_double_count(col) == col.leading_zero + col.number + col.bit

castable_date_count(col) == col.date

castable_boolean_count(col) == col.bit + col.bool_word

leading_zeros_count(col) == col.leading_zero

\* round(count / non_null, 4), in ten-thousandths
RoundedRate(count, non_null) == (20000 * count + non_null) \div (2 * non_null)

NoFinding == [category |-> "none"]

\* the chain with the leading-zero test alone in its first branch: a column
\* with leading zeros gets no suggested cast, whatever its numeric rate
suggested_cast_no_leading_zeros(leading_zeros, numeric_rate, date_rate, boolean_rate) ==
  IF leading_zeros > 0 THEN "None"
  ELSE IF boolean_rate > 9000 THEN "BOOLEAN"
  ELSE IF date_rate > 9000 THEN "DATE"
  ELSE IF numeric_rate > 9000 THEN "DOUBLE"
  ELSE "None"

\* the if / elif chain that sets suggested_cast
suggested_cast(leading_zeros, numeric_rate, date_rate, boolean_rate) ==
  IF leading_zeros > 0 /\ numeric_rate > 5000 THEN "None"
  ELSE IF boolean_rate > 9000 THEN "BOOLEAN"
  ELSE IF date_rate > 9000 THEN "DATE"
  ELSE IF numeric_rate > 9000 THEN "DOUBLE"
  ELSE "None"

\* the body of the per-column loop of _batch_type_analysis: the finding it
\* appends, or NoFinding
type_analysis(col) ==
  LET non_null == non_null_count(col)
      leading_zeros == leading_zeros_count(col)
  IN IF non_null = 0 THEN NoFinding
     ELSE LET numeric_rate == RoundedRate(castable_double_count(col), non_null)
              date_rate == RoundedRate(castable_date_count(col), non_null)
              boolean_rate == RoundedRate(castable_boolean_count(col), non_null)
              has_notable == \/ leading_zeros > 0
                             \/ numeric_rate > 9000
                             \/ date_rate > 9000
                             \/ boolean_rate > 9000
          IN IF ~has_notable THEN NoFinding
             ELSE [category |-> "type_analysis",
                   severity |-> IF leading_zeros > 0 /\ numeric_rate > 5000
                                THEN "warning" ELSE "info",
                   numeric_castable_rate |-> numeric_rate,
                   date_castable_rate |-> date_rate,
                   boolean_castable_rate |-> boolean_rate,
                   leading_zero_count |-> leading_zeros,
                   suggested_cast |-> suggested_cast(leading_zeros, numeric_rate,
                                                     date_rate, boolean_rate)]

CallTypeAnalysis ==
  /\ fcall = NoCall
  /\ \E lz \in 0..ScanRows : \E num \in 0..(ScanRows - lz) :
       \E bit \in 0..(ScanRows - lz - num) :
         \E word \in 0..(ScanRows - lz - num - bit) :
           \E date \in 0..(ScanRows - lz - num - bit - word) :
             \E text \in 0..(ScanRows - lz - num - bit - word - date) :
               \E col \in {ScanColumn(lz, num, bit, word, date, text)} :
                 fcall' = Call("type_analysis", col, type_analysis(col))
  /\ UNCHANGED notFunVars

\* ------------------------------------------------------------------------
\* run_quality_checks (quality.py) on a table of the session
\* ------------------------------------------------------------------------

\* most rows of a table handed to the scanner
MaxScanTableRows == 2

\* values of a data column and of a column the source file itself calls
\* is_duplicate
DataValues == {" a", "a", "N/A", "12", "07", Null}

FileFlagValues == {"yes", " a", Null}

\* the loaded tables: column a and processed_at, with or without a VARCHAR
\* column is_duplicate that came with the file
LoadedScanTables ==
  UNION { {Table([c \in {"a", "processed_at"} |->
                    IF c = "a" THEN "VARCHAR" ELSE "TIMESTAMP"],
                 [i \in 1..n |-> [c \in {"a", "processed_at"} |->
                                    IF c = "a" THEN av[i] ELSE "ts"]]) :
             av \in [1..n -> DataValues]}
          \cup
          {Table([c \in {"a", "is_duplicate", "processed_at"} |->
                    IF c = "processed_at" THEN "TIMESTAMP" ELSE "VARCHAR"],
                 [i \in 1..n |-> [c \in {"a", "is_duplicate", "processed_at"} |->
                                    CASE c = "a" -> v[i][1]
                                      [] c = "is_duplicate" -> v[i][2]
                                      [] OTHER -> "ts"]]) :
             v \in [1..n -> DataValues \X FileFlagValues]} :
          n \in 0..MaxScanTableRows }

\* the tables to which soft dedup added is_duplicate: the loaded tables
\* with two equal rows
DedupedScanTables ==
  { sql_flag_duplicates(T, {"a"}) :
      T \in {U \in LoadedScanTables :
               /\ "is_duplicate" \notin DOMAIN U.types
               /\ \E i, j \in DOMAIN U.rows : i < j /\ U.rows[i]["a"] = U.rows[j]["a"]} }

ScanTables == LoadedScanTables \cup DedupedScanTables

\* which of the FILTER expressions of _batch_type_analysis a value meets
KindOf(v) ==
  CASE v = "07" -> "leading_zero"
    [] v \in {"12", "7"} -> "number"
    [] v \in {"0", "1"} -> "bit"
    [] Lower(Trim(v)) \in {"true", "false", "yes", "no"} -> "bool_word"
    [] TryCastDate(v) /= Null -> "date"
    [] OTHER -> "text"

CountKind(T, col, kind) ==
  Cardinality({i \in DOMAIN T.rows :
                 T.rows[i][col] /= Null /\ KindOf(T.rows[i][col]) = kind})

\* the counts of the wide SELECT for one column of the table
column_profile(T, col) ==
  ScanColumn(CountKind(T, col, "leading_zero"), CountKind(T, col, "number"),
             CountKind(T, col, "bit"), CountKind(T, col, "bool_word"),
             CountKind(T, col, "date"), CountKind(T, col, "text"))

ScanFinding(category, column, columns) ==
  [category |-> category, column |-> column, columns |-> columns]

\* profiling/column_stats.sql (SUMMARIZE): null count and distinct values
null_count_of(T, col) == Cardinality({i \in DOMAIN T.rows : T.rows[i][col] = Null})

approx_unique(T, col) == Cardinality(ColumnValues(T, col) \ {Null})

\* _nulls_from_summarize
nulls_from_summarize(T) ==
  IF get_row_count(T) = 0 THEN {}
  ELSE { ScanFinding("null_analysis", col, {}) :
           col \in {c \in DOMAIN T.types :
                      /\ c /= "processed_at"
                      /\ 2 * null_count_of(T, c) > get_row_count(T)} }

\* _constants_from_summarize
constants_from_summarize(T) ==
  LET constant_cols == {c \in DOMAIN T.types :
                          c /= "processed_at" /\ approx_unique(T, c) <= 1}
  IN IF constant_cols /= {}
     THEN {ScanFinding("constant_columns", "", constant_cols)}
     ELSE {}

\* _batch_type_analysis
batch_type_analysis(T, vcols) ==
  { ScanFinding("type_analysis", col, {}) :
      col \in {c \in vcols : type_analysis(column_profile(T, c)) /= NoFinding} }

\* _batch_null_like_and_whitespace
batch_null_like_and_whitespace(T, vcols) ==
       { ScanFinding("null_like_strings", col, {}) :
           col \in {c \in vcols : \E v \in ColumnValues(T, c) \ {Null} :
                                    Lower(Trim(v)) \in NULL_LIKE_SENTINELS} }
  \cup { ScanFinding("whitespace", col, {}) :
           col \in {c \in vcols : \E v \in ColumnValues(T, c) \ {Null} :
                                    v /= Trim(v)} }

\* _check_duplicates: quality/approximate_duplicates.sql counts
\* count(*) - count(distinct *) without processed_at
check_duplicates(T) ==
  LET check == DOMAIN T.types \ {"processed_at"}
      distinct == {[c \in check |-> T.rows[i][c]] : i \in DOMAIN T.rows}
  IN IF get_row_count(T) - Cardinality(distinct) > 0
     THEN {ScanFinding("duplicates", "", {})}
     ELSE {}

\* the columns handed to _batch_outliers: the numeric columns and the
\* VARCHAR columns that cast to DOUBLE in more than 90% of their values
all_numeric(T) ==
  LET check_columns == DOMAIN T.types \ {"processed_at"}
      numeric_cols ==
        {c \in check_columns :
           T.types[c] \in {"BIGINT", "INTEGER", "DOUBLE", "FLOAT", "DECIMAL"}}
      varchar_check_cols == {c \in check_columns : T.types[c] = "VARCHAR"}
  IN numeric_cols \cup
     {c \in varchar_check_cols :
        /\ get_row_count(T) > 0
        /\ non_null_count(column_profile(T, c)) > 0
        /\ 10 * castable_double_count(column_profile(T, c))
             > 9 * non_null_count(column_profile(T, c))}

\* run_quality_checks; outlier_cols are the columns in which _batch_outliers
\* counted a value outside the IQR bounds
run_quality_checks(T, outlier_cols) ==
  LET check_columns == DOMAIN T.types \ {"processed_at"}
      varchar_check_cols == {c \in check_columns : T.types[c] = "VARCHAR"}
      scanned == get_row_count(T) > 0 /\ varchar_check_cols /= {}
  IN nulls_from_summarize(T)
       \cup constants_from_summarize(T)
       \cup (IF scanned THEN batch_type_analysis(T, varchar_check_cols) ELSE {})
       \cup (IF scanned THEN batch_null_like_and_whitespace(T, varchar_check_cols) ELSE {})
       \cup check_duplicates(T)
       \cup {ScanFinding("outliers", col, {}) : col \in outlier_cols}

CallRunQualityChecks ==
  /\ fcall = NoCall
  /\ \E T \in ScanTables : \E outlier_cols \in SUBSET all_numeric(T) :
       fcall' = Call("run_quality_checks", T, run_quality_checks(T, outlier_cols))
  /\ UNCHANGED notFunVars

\* ------------------------------------------------------------------------
\* Header detection: _detect_header (ingestion.py)
\* ------------------------------------------------------------------------

\* what reading the first three rows gives: the open or the reader raises,
\* the file has no row, or there are rows
HeaderSamples == {"unreadable", "empty", "rows"}

\* response.text of the classifier; NoText is None
NoText == "<None>"

ClassifierReplies ==
  {"HEADERS", "DATA", "headers", " data\n", "Headers.", "UNKNOWN", "",
   "I am not sure", "DATA, not HEADERS", NoText}

\* what the classifier call does: it raises, or it returns a reply
ClassifierOutcomes ==
  {[raises |-> TRUE, text |-> ""]} \cup
  {[raises |-> FALSE, text |-> t] : t \in ClassifierReplies}

\* response.text.strip().upper()
StripUpper(text) ==
  CASE text = "headers"           -> "HEADERS"
    [] text = " data\n"           -> "DATA"
    [] text = "Headers."          -> "HEADERS."
    [] text = "I am not sure"     -> "I AM NOT SURE"
    [] text = "DATA, not HEADERS" -> "DATA, NOT HEADERS"
    [] OTHER                      -> text

\* "HEADER" in answer
ContainsHEADER(answer) ==
  answer \in {"HEADERS", "HEADERS.", "DATA, NOT HEADERS"}

\* the reading in which only the answer DATA means no header
header_from_answer_data_only(answer) == answer /= "DATA"

\* return "HEADER" in answer
header_from_answer(answer) == ContainsHEADER(answer)

\* _detect_header
detect_header(sample, classifier) ==
  IF sample = "unreadable" THEN TRUE
  ELSE IF sample = "empty" THEN TRUE
  ELSE IF classifier.raises \/ classifier.text = NoText THEN TRUE
  ELSE header_from_answer(StripUpper(classifier.text))

CallDetectHeader ==
  /\ fcall = NoCall
  /\ \E sample \in HeaderSamples, classifier \in ClassifierOutcomes :
       fcall' = Call("detect_header", [sample |-> sample, classifier |-> classifier],
                     detect_header(sample, classifier))
  /\ UNCHANGED notFunVars

NextScan ==
  \/ CallOverflowStep
  \/ CallTypeAnalysis
  \/ CallRunQualityChecks
  \/ CallDetectHeader

SpecScan == InitFun /\ [][NextScan]_vars

\* ------------------------------------------------------------------------
\* Properties of the overflow repair (checked under SpecScan)
\* ------------------------------------------------------------------------

\* the columns from k on are all NULL in at least 80% of the rows
SparseFrom(T, k) ==
  \A j \in k..Len(T) :
    10 * Cardinality({i \in DOMAIN T[j].cells : T[j].cells[i] = Null})
      >= 8 * Len(T[j].cells)

\* the first column of the trailing block of sparse columns (Len + 1 when
\* the last column is not sparse)
BlockStart(T) == CHOOSE k \in 1..(Len(T) + 1) :
                   SparseFrom(T, k) /\ (k = 1 \/ ~SparseFrom(T, k - 1))

\* the rows in which a column of the block holds non-blank text
ShiftedRows(T) ==
  {i \in 1..Len(T[1].cells) :
     \E j \in BlockStart(T)..Len(T) : T[j].cells[i] \notin {Null, "", " "}}

RateOfSuggested(f) ==
  CASE f.suggested_cast = "BOOLEAN" -> f.boolean_castable_rate
    [] f.suggested_cast = "DATE"    -> f.date_castable_rate
    [] f.suggested_cast = "DOUBLE"  -> f.numeric_castable_rate
    [] OTHER                        -> 0

\* C25: a type_analysis finding with a suggested cast has no leading zeros
\* and a castable rate above 0.9 for that type; a column with a leading-zero
\* value gets no suggested cast
C25_NoCastWithLeadingZeros ==
  (fcall.fn = "type_analysis" /\ fcall.output.category = "type_analysis") =>
    /\ fcall.output.suggested_cast /= "None" =>
         /\ fcall.output.leading_zero_count = 0
         /\ RateOfSuggested(fcall.output) > 9000
    /\ fcall.input.leading_zero > 0 => fcall.output.suggested_cast = "None"

\* one "007" among ten boolean words: BOOLEAN is suggested for a column
\* with a leading-zero value
C25_CastSuggestedWithLeadingZero ==
  /\ fcall.fn = "type_analysis"
  /\ fcall.input = ScanColumn(1, 0, 0, 10, 0, 0)
  /\ fcall.output.leading_zero_count = 1
  /\ fcall.output.suggested_cast = "BOOLEAN"

\* the cast is suggested only above 0.9 (rounded rates)
C25_SuggestedRateAboveThreshold ==
  (fcall.fn = "type_analysis" /\ fcall.output.category = "type_analysis"
     /\ fcall.output.suggested_cast /= "None") =>
    RateOfSuggested(fcall.output) > 9000

\* ------------------------------------------------------------------------
\* Properties of the scanner (checked under SpecScan)
\* ------------------------------------------------------------------------

\* the columns the findings name
NamedColumns(F) == ({f.column : f \in F} \cup UNION {f.columns : f \in F}) \ {""}

\* C26: no finding of the scanner names processed_at or is_duplicate, in
\* any category, also for a table to which cleaning added is_duplicate
C26_ProtectedColumnsNotScanned ==
  fcall.fn = "run_quality_checks" =>
    NamedColumns(fcall.output) \cap PROTECTED_COLUMNS = {}

\* the scan of a table with a column is_duplicate emitted a finding that
\* names it
C26_IsDuplicateNamed ==
  /\ fcall.fn = "run_quality_checks"
  /\ "is_duplicate" \in DOMAIN fcall.input.types
  /\ ScanFinding("whitespace", "is_duplicate", {}) \in fcall.output

\* no finding names processed_at
C26_ProcessedAtNotNamed ==
  fcall.fn = "run_quality_checks" => "processed_at" \notin NamedColumns(fcall.output)

\* the flag column soft dedup added, true in some row and false in
\* another, is not named
C26_DedupFlagNotNamed ==
  (/\ fcall.fn = "run_quality_checks"
   /\ "is_duplicate" \in DOMAIN fcall.input.types
   /\ fcall.input.types["is_duplicate"] = "BOOLEAN") =>
    "is_duplicate" \notin NamedColumns(fcall.output)

\* ------------------------------------------------------------------------
\* Temporary files of load_file (checked under SpecLoad)
\* ------------------------------------------------------------------------

\* C27: every temporary file a load_file call creates is deleted before the
\* call returns, whether it succeeds, returns an error or the engine raises
C27_NoTempFileLeft ==
  [][ load_calls' /= load_calls => tmp_files' = tmp_files ]_vars

\* a repaired JSON copy was written, the engine raised on it, load_file
\* returned its error and the copy is still on disk
C27_RepairedCopyLeft ==
  /\ load_call.fmt = "jsonl"
  /\ load_call.tmp_written = 1
  /\ load_result.status = "error"
  /\ load_result.error = "failed_to_load"
  /\ tmp_files = 1

\* a load that returns success or the unrecoverable-lines error leaves no
\* temporary file
C27_NoTempFileLeftUnlessEngineRaises ==
  [][ (load_calls' /= load_calls /\ load_result'.error /= "failed_to_load") =>
        tmp_files' = tmp_files ]_vars

\* ------------------------------------------------------------------------
\* Temporary external tables of the lakehouse loader (checked under SpecLake)
\* ------------------------------------------------------------------------

\* the positions between the CREATE of the temporary table and its DROP
InsideTry ==
  {"create_table", "build_cast_select", "delete_all", "delete_matching",
   "insert", "drop_temp"}

RepliedDATA(call) ==
  /\ call.sample = "rows"
  /\ ~call.classifier.raises
  /\ call.classifier.text \in {"DATA", " data\n"}

\* C29: _detect_header answers "no header" only when the classifier replies
\* DATA; an empty or unreadable sample, a failing classifier call and a
\* reply that is neither HEADERS nor DATA give the default, header present
C29_NoHeaderOnlyOnDATA ==
  (fcall.fn = "detect_header" /\ fcall.output = FALSE) => RepliedDATA(fcall.input)

\* the reply UNKNOWN gave "no header"
C29_UnknownReplyGivesNoHeader ==
  /\ fcall.fn = "detect_header"
  /\ fcall.input.sample = "rows"
  /\ fcall.input.classifier.text = "UNKNOWN"
  /\ fcall.output = FALSE

\* an empty or unreadable sample and a failing classifier call give the
\* default
C29_DefaultOnFailure ==
  (/\ fcall.fn = "detect_header"
   /\ \/ fcall.input.sample /= "rows"
      \/ fcall.input.classifier.raises
      \/ fcall.input.classifier.text = NoText) => fcall.output = TRUE

====
